---- MODULE Spec2Model ----
(***************************************************************************)
(* RSecretary: the message-intent pipeline, the task dispatcher, the task  *)
(* handlers' record-store operations and the daily-report scheduler.       *)
(*                                                                         *)
(* Strings whose content the code inspects (titles, task names) are        *)
(* sequences of one-character strings, so lower() and the `in` substring   *)
(* test are computed.  Confidences are integers in tenths (0.7 is 7).      *)
(* Python's None is the string "None" for values and 0 for record ids.     *)
(***************************************************************************)
EXTENDS Integers, Sequences, FiniteSets, TLC

VARIABLES
    store,      \* record store: task type -> sequence of live (unarchived) records
    phase,      \* "idle" before a handler call, "done" once it has returned
    res,        \* what the last handler call returned and did
    task_history,   \* TaskDispatcher.task_history: execution id -> entry
    clock,      \* dispatcher wall clock (datetime.now().timestamp()), in ticks
    dres,       \* what the last dispatcher call returned and did
    conversation_contexts,  \* MessageProcessor.conversation_contexts
    pm,         \* what the last process_message call returned and did
    daily_push_users,   \* TaskScheduler.daily_push_users
    firing,     \* the run of _daily_morning_push over daily_push_users
    is_running, \* TaskScheduler.is_running
    jobs,       \* the jobs registered with the process-wide schedule
    due,        \* the jobs whose next_run has passed
    threads,    \* the threads running _run_scheduler: thread -> position
    accounting_db,  \* the accounting database of the store, latest date first
    todo_db,    \* the to-do database of the store, earliest due date first
    report,     \* what the last send_manual_daily_report call returned
    query_results,  \* the records a successful query_data handed to _handle_query
    query_reply,    \* what _handle_query made of query_results
    in_flight,  \* the process_message calls suspended in `await analyze_task`
    arrivals    \* the calls the adapters have made so far, in order

vars == <<store, phase, res, task_history, clock, dres,
          conversation_contexts, pm, daily_push_users, firing,
          is_running, jobs, due, threads,
          accounting_db, todo_db, report, query_results, query_reply,
          in_flight, arrivals>>

coreVars == <<store, phase, res, task_history, clock, dres>>
processorVars == <<conversation_contexts, pm, in_flight, arrivals>>
pushVars == <<daily_push_users, firing>>
schedulerVars == <<is_running, jobs, due, threads>>
reportVars == <<accounting_db, todo_db, report>>
queryVars == <<query_results, query_reply>>

(***************************************************************************)
(* Bounds of the model                                                     *)
(***************************************************************************)
MaxRecords == 2

(***************************************************************************)
(* Text                                                                    *)
(***************************************************************************)
\* str.lower() on one character
LowerChar(c) ==
    CASE c = "S" -> "s"
      [] c = "D" -> "d"
      [] c = "R" -> "r"
      [] OTHER -> c

\* str.lower()
Lower(s) == [i \in DOMAIN s |-> LowerChar(s[i])]

\* Python's `a in b` on strings: a is a contiguous part of b ("" is in every string)
StrIn(a, b) ==
    \E off \in 0..(Len(b) - Len(a)) :
        \A i \in 1..Len(a) : b[off + i] = a[i]

\* titles a record of the store can carry ("" is an untitled page)
Titles == { <<>>, <<"S", "r">>, <<"S", "d">>, <<"d">> }

\* task names a caller can pass
Names == { <<>>, <<"s">>, <<"S", "d">>, <<"x">> }

(***************************************************************************)
(* Record store (Notion), as the handlers see it                           *)
(***************************************************************************)
TaskTypes == { "accounting", "subscription", "todo" }

\* a page of a collection; id 0 is a page whose id the store did not return
Record(id, title) ==
    [ id |-> id, title |-> title, status |-> "pending",
      priority |-> "medium", due |-> "" ]

RecordShapes == [ title : Titles, hasId : BOOLEAN ]

\* a collection built from shapes: the page at position i has id i
MkCollection(shapes) ==
    [ i \in DOMAIN shapes |->
        Record(IF shapes[i].hasId THEN i ELSE 0, shapes[i].title) ]

Collections ==
    { MkCollection(sh) :
        sh \in UNION { [1..n -> RecordShapes] : n \in 0..MaxRecords } }

\* NotionClient.query_database: the live pages, or [] when the request fails
QueryDatabase(collection, ok) == IF ok THEN collection ELSE << >>

\* _format_property_value as update_page applies it to the values of
\* update_data, which are property objects already: a select gets the text of
\* the object as its name, a date that is neither a datetime nor a string
\* becomes None
FormatPropertyValue(prop_type, value) ==
    CASE prop_type = "select" /\ value = "done" -> "{'select': {'name': 'done'}}"
      [] prop_type = "select" /\ value = "high" -> "{'select': {'name': 'high'}}"
      [] prop_type = "date" -> ""
      [] OTHER -> value

\* the store after pages.update(page_id, properties) succeeded
ApplyUpdate(collection, page_id, ns, np, nd, fields) ==
    [ i \in DOMAIN collection |->
        IF collection[i].id # page_id THEN collection[i]
        ELSE [ collection[i] EXCEPT
                 !.status   = IF "status" \in fields
                              THEN FormatPropertyValue("select", ns) ELSE @,
                 !.priority = IF "priority" \in fields
                              THEN FormatPropertyValue("select", np) ELSE @,
                 !.due      = IF "due" \in fields
                              THEN FormatPropertyValue("date", nd.text) ELSE @ ] ]

\* the store after the pages of `ids` have been archived
ApplyArchive(collection, ids) ==
    SelectSeq(collection, LAMBDA r : r.id \notin ids)

(***************************************************************************)
(* Inputs of update_by_name                                                *)
(***************************************************************************)
NewStatuses   == { "", "done" }
NewPriorities == { "", "high" }

\* new_date: its text, whether len(new_date) == 10, whether strptime accepts it
NewDates ==
    { [ text |-> "",                 len10 |-> FALSE, ymd |-> FALSE ],
      [ text |-> "2026-11-05",       len10 |-> TRUE,  ymd |-> TRUE  ],
      [ text |-> "2026-13-45",       len10 |-> TRUE,  ymd |-> FALSE ],
      [ text |-> "2026-11-05T09:00", len10 |-> FALSE, ymd |-> FALSE ] }

\* what the completion oracle returns to the tie-break prompt when asked:
\* an error, text without a JSON object, or {"selected_index", "confidence"}
TieBreakReplies ==
    { [ kind |-> "raise", idx |-> -1, conf |-> 0 ],
      [ kind |-> "text",  idx |-> -1, conf |-> 0 ] }
    \cup [ kind : { "json" }, idx : -1..MaxRecords, conf : { 6, 7 } ]

(***************************************************************************)
(* TodoTask.update_by_name and its tie-break                               *)
(***************************************************************************)
\* the confidence floor of the tie-break, in tenths (confidence >= 0.7)
TieBreakConfidence == 7

\* whether the name `json` is bound where the tie-break prompt is built: the
\* f-string of the prompt calls json.dumps, the function's own `import json`
\* comes after it and the module imports no json, so the name is an unbound
\* local there and building the prompt raises UnboundLocalError
JsonBoundAtPrompt == FALSE

\* the match test of the candidate loop: either lowercased string contains the other
TitleMatches(task_name, title) ==
    StrIn(Lower(task_name), Lower(title)) \/ StrIn(Lower(title), Lower(task_name))

MatchedTasks(all_todos, task_name) ==
    SelectSeq(all_todos, LAMBDA todo : TitleMatches(task_name, todo.title))

\* a tie-break that falls back to the first candidate instead of None
SelectFirstOnDoubt(matched_tasks, reply) ==
    IF reply.kind = "json" /\ reply.idx >= 0 /\ reply.idx < Len(matched_tasks)
       /\ reply.conf >= 7
    THEN [ pick |-> reply.idx + 1, asked |-> TRUE ]
    ELSE [ pick |-> 1, asked |-> TRUE ]

\* _select_best_match_with_ai: [pick |-> position of the chosen candidate in
\* matched_tasks, 0 for None; asked |-> whether the oracle was called]; every
\* exception ends in `return None`
SelectBestMatchWithAi(matched_tasks, reply) ==
    IF ~JsonBoundAtPrompt
    THEN [ pick |-> 0, asked |-> FALSE ]
    ELSE IF reply.kind # "json"
    THEN [ pick |-> 0, asked |-> TRUE ]
    ELSE IF reply.idx >= 0 /\ reply.idx < Len(matched_tasks)
            /\ reply.conf >= TieBreakConfidence
    THEN [ pick |-> reply.idx + 1, asked |-> TRUE ]
    ELSE [ pick |-> 0, asked |-> TRUE ]

\* a resolution that sends every candidate list through the tie-break
ResolveAlwaysAsking(matched_tasks, reply) ==
    SelectBestMatchWithAi(matched_tasks, reply)

\* the choice of best_match: a single candidate directly, several through the
\* tie-break
ResolveTarget(matched_tasks, reply) ==
    IF Len(matched_tasks) = 1
    THEN [ pick |-> 1, asked |-> FALSE ]
    ELSE SelectBestMatchWithAi(matched_tasks, reply)

\* a handler call's result and effects, all fields at their defaults
NoResult ==
    [ op |-> "none", success |-> FALSE, error |-> "", raised |-> FALSE,
      matched |-> << >>,      \* the candidates of the substring match
      listed |-> << >>,       \* the candidates enumerated in the message
      target |-> 0,           \* position in matched of the resolved record, 0: none
      task_name |-> << >>,    \* data["task_name"]
      oracleCalls |-> 0,      \* calls of generate_content
      updateCalls |-> << >>,  \* update_page calls: <<page id, fields>>
      updates |-> << >>,      \* data["updates"]
      archiveCalls |-> << >>, \* delete_page calls: page ids
      deleted_count |-> 0, failed_count |-> 0,
      hasFailedCount |-> FALSE,  \* whether data carries failed_count
      total |-> 0,            \* records the store returned
      args |-> << >> ]        \* the arguments and the collaborators' answers

\* an update_data that carries all three fields whatever was given
UpdateDataAllFields(new_status, new_priority, new_date) ==
    { "status", "priority", "due" }

\* update_data: the fields that get a value
UpdateData(new_status, new_priority, new_date) ==
    (IF new_status # "" THEN { "status" } ELSE {})
    \cup (IF new_priority # "" THEN { "priority" } ELSE {})
    \cup (IF new_date.text # "" /\ new_date.len10 /\ new_date.ymd
          THEN { "due" } ELSE {})

\* update_info: the fields the success result reports
UpdateInfo(new_status, new_priority, new_date) ==
    (IF new_status # "" THEN << "status" >> ELSE << >>)
    \o (IF new_priority # "" THEN << "priority" >> ELSE << >>)
    \o (IF new_date.text # "" THEN << "due" >> ELSE << >>)

\* update_by_name on the pages the store returned; updOk is update_page's outcome
UpdateByName(all_todos, task_name, new_status, new_priority, new_date, reply, updOk) ==
    LET base == [ NoResult EXCEPT !.op = "update_by_name", !.total = Len(all_todos),
                    !.args = [ task_name |-> task_name, new_status |-> new_status,
                               new_priority |-> new_priority, new_date |-> new_date,
                               reply |-> reply, updOk |-> updOk ] ]
        matched_tasks == MatchedTasks(all_todos, task_name)
        sel == IF Len(matched_tasks) > 0
               THEN ResolveTarget(matched_tasks, reply)
               ELSE [ pick |-> 0, asked |-> FALSE ]
        pick == sel.pick
        best_match == matched_tasks[pick]
        withMatch == [ base EXCEPT !.matched = matched_tasks,
                                   !.oracleCalls = IF sel.asked THEN 1 ELSE 0 ]
        update_data == UpdateData(new_status, new_priority, new_date)
    IN  IF Len(all_todos) = 0
        THEN [ base EXCEPT !.error = "empty_list" ]
        ELSE IF Len(matched_tasks) = 0
        THEN [ base EXCEPT !.error = "not_found" ]
        ELSE IF pick = 0
        THEN [ withMatch EXCEPT !.error = "ambiguous", !.listed = matched_tasks ]
        ELSE IF best_match.id = 0
        THEN [ withMatch EXCEPT !.error = "no_id", !.target = pick ]
        ELSE IF update_data = {}
        THEN [ withMatch EXCEPT !.error = "no_update_data", !.target = pick ]
        ELSE IF ~updOk
        THEN [ withMatch EXCEPT !.error = "update_failed", !.target = pick,
                 !.updateCalls = << << best_match.id, update_data >> >> ]
        ELSE [ withMatch EXCEPT !.success = TRUE, !.target = pick,
                 !.task_name = best_match.title,
                 !.updateCalls = << << best_match.id, update_data >> >>,
                 !.updates = UpdateInfo(new_status, new_priority, new_date) ]

(***************************************************************************)
(* delete_all of the handlers (TodoTask, AccountingTask, SubscriptionTask)  *)
(***************************************************************************)
\* positions of the pages delete_page is called for: those with an id
Archivable(all_records) == { i \in DOMAIN all_records : all_records[i].id # 0 }

\* a delete_all that counts every attempted archive as deleted
DeleteAllCountingAttempts(all_records, failing) ==
    [ NoResult EXCEPT !.op = "delete_all", !.total = Len(all_records),
        !.args = [ failing |-> failing ], !.success = TRUE,
        !.archiveCalls =
            LET calls == SelectSeq(all_records, LAMBDA r : r.id # 0)
            IN  [ i \in DOMAIN calls |-> calls[i].id ],
        !.deleted_count = Cardinality(Archivable(all_records)),
        !.failed_count = Cardinality(Archivable(all_records) \cap failing),
        !.hasFailedCount = (Archivable(all_records) \cap failing # {}) ]

\* delete_all on the pages the store returned; failing is the set of positions
\* whose delete_page returns False
DeleteAll(all_records, failing) ==
    LET base == [ NoResult EXCEPT !.op = "delete_all", !.total = Len(all_records),
                    !.args = [ failing |-> failing ] ]
        tried == Archivable(all_records)
        calls == SelectSeq(all_records, LAMBDA r : r.id # 0)
        deleted_count == Cardinality(tried \ failing)
        failed_count == Cardinality(tried \cap failing)
    IN  IF Len(all_records) = 0
        THEN [ base EXCEPT !.success = TRUE ]
        ELSE [ base EXCEPT !.success = TRUE,
                 !.archiveCalls = [ i \in DOMAIN calls |-> calls[i].id ],
                 !.deleted_count = deleted_count,
                 !.failed_count = failed_count,
                 !.hasFailedCount = (failed_count # 0) ]

\* ids of the pages a delete_all archived
ArchivedIds(all_records, failing) ==
    { all_records[i].id : i \in Archivable(all_records) \ failing }

(***************************************************************************)
(* Task handlers: validate_data, format_data, execute, safe_execute        *)
(***************************************************************************)
Users == { "u1", "u2" }

\* task data as the handlers read it: whether it is a dict at all, the
\* title/name, the amount/price ("pos", "zero", "neg" or "nan" for text that
\* float() rejects), the date field ("" absent, "ymd" a YYYY-MM-DD date, "bad"
\* unparsable) and the enumerated field (priority, type, billing_cycle)
SampleData ==
    [ isDict : { TRUE }, name : { << >>, <<"d">> }, num : { "pos", "zero", "nan" },
      date : { "", "ymd", "bad" }, option : { "valid", "bogus" } ]
    \cup { [ isDict |-> FALSE, name |-> << >>, num |-> "nan", date |-> "",
             option |-> "bogus" ] }

\* the step of the chain at which an exception is injected
Faults == { "none", "ctor", "validate", "format", "execute",
            "record_start", "record_result" }

\* validate_data of the three handlers: "true", "false" or "raise"
ValidateData(task_type, data) ==
    IF ~data.isDict THEN "raise"              \* data.get on a non-dict
    ELSE IF data.name = << >> THEN "false"
    ELSE CASE task_type = "todo" ->
                IF data.date = "bad" THEN "false" ELSE "true"
           [] task_type = "accounting" ->
                IF data.num = "pos" THEN "true" ELSE "false"
           [] task_type = "subscription" ->
                IF data.num \in { "pos", "zero" } THEN "true" ELSE "false"

\* the in-place coercion of validate_data followed by format_data
FormatData(task_type, data) ==
    [ data EXCEPT !.option = "valid",
                  !.num = IF task_type # "todo" /\ @ = "nan" THEN "zero" ELSE @,
                  !.date = IF task_type = "accounting" /\ @ = "" THEN "ymd" ELSE @ ]

\* execute: "created", "store_failed" (create_page returned None) or
\* "exception" (caught by execute's own handler, nothing written)
Execute(task_type, data, createOk) ==
    IF task_type \in { "todo", "accounting" } /\ data.date = "bad"
    THEN "exception"
    ELSE IF createOk THEN "created" ELSE "store_failed"

\* safe_execute was not called
NoLifecycle ==
    [ steps |-> << >>, success |-> FALSE, error |-> "", created |-> FALSE,
      data |-> << >> ]

\* a lifecycle that goes on to format and execute whatever validate_data said
SafeExecuteUnvalidated(task_type, data, fault, createOk) ==
    LET formatted == FormatData(task_type, data)
        e == IF fault = "execute" THEN "exception"
             ELSE Execute(task_type, formatted, createOk)
    IN  [ steps |-> << "validate", "format", "execute" >>,
          success |-> (e = "created"),
          error |-> IF e = "created" THEN "" ELSE e,
          created |-> (e = "created"), data |-> formatted ]

\* BaseTask.safe_execute: the steps run, the result, whether a page was created
SafeExecute(task_type, data, fault, createOk) ==
    LET v == IF fault = "validate" THEN "raise" ELSE ValidateData(task_type, data)
        formatted == FormatData(task_type, data)
        e == IF fault = "execute" THEN "exception"
             ELSE Execute(task_type, formatted, createOk)
    IN  IF v = "raise"
        THEN [ steps |-> << "validate" >>, success |-> FALSE,
               error |-> "exception", created |-> FALSE, data |-> data ]
        ELSE IF v = "false"
        THEN [ steps |-> << "validate" >>, success |-> FALSE,
               error |-> "validation", created |-> FALSE, data |-> data ]
        ELSE IF fault = "format"
        THEN [ steps |-> << "validate", "format" >>, success |-> FALSE,
               error |-> "exception", created |-> FALSE, data |-> data ]
        ELSE [ steps |-> << "validate", "format", "execute" >>,
               success |-> (e = "created"),
               error |-> IF e = "created" THEN "" ELSE e,
               created |-> (e = "created"), data |-> formatted ]

\* TaskFactory._task_classes after MessageProcessor._register_tasks
Registry == TaskTypes

\* a factory that takes the handler of another type for an unregistered one
CreateTaskWithDefault(task_type) == "task"

\* TaskFactory.create_task: "task", "None" for an unregistered type; the
\* constructor, which may raise, is called for a registered type only
CreateTask(task_type) == IF task_type \in Registry THEN "task" ELSE "None"

(***************************************************************************)
(* TaskDispatcher                                                          *)
(***************************************************************************)
MaxExec == 2    \* execution-history entries the model lets the dispatcher make
MaxClock == 2   \* ticks of the wall clock
MaxBatch == 2   \* length of a batch

\* a dispatcher call's result and effects, all fields at their defaults
NoDispatch ==
    [ op |-> "none", raised |-> FALSE, success |-> FALSE, error |-> "",
      isTaskResult |-> FALSE,
      calls |-> << >>,      \* handler methods invoked, in order
      storeOps |-> 0,       \* record-store requests made
      results |-> << >>,    \* batch: the returned list
      k |-> 0,              \* batch: length of the input list
      args |-> << >>,       \* the arguments and the injected fault
      handler |-> NoResult ]

\* a dispatcher method without its `except Exception` clause
ExceptionEscapes(base) ==
    [ base EXCEPT !.raised = TRUE, !.isTaskResult = FALSE ]

\* the `except Exception` clause that ends every dispatcher method: the
\* exception becomes TaskResult(success=False)
ExceptionToResult(base) == [ base EXCEPT !.error = "system" ]

\* f"{user_id}_{task_type}_{datetime.now().timestamp()}"
ExecutionId(user_id, task_type, now) == << user_id, task_type, now >>

\* _record_task_start
RecordTaskStart(history, task_type, user_id, now) ==
    LET execution_id == ExecutionId(user_id, task_type, now)
    IN  [ id \in DOMAIN history \cup { execution_id } |->
            IF id = execution_id
            THEN [ task_type |-> task_type, user_id |-> user_id,
                   start_time |-> now, status |-> "running", success |-> "None" ]
            ELSE history[id] ]

\* _record_task_result
RecordTaskResult(history, execution_id, success) ==
    IF execution_id \in DOMAIN history
    THEN [ history EXCEPT ![execution_id] =
             [ @ EXCEPT !.status = "completed",
                        !.success = IF success THEN "True" ELSE "False" ] ]
    ELSE history

\* the page execute creates in its collection
CreatedRecord(collection, data) ==
    LET ids == { collection[i].id : i \in DOMAIN collection } \cup { 0 }
        fresh == CHOOSE n \in 1..(Len(collection) + 1) : n \notin ids
    IN  Record(fresh, data.name)

\* execute_task: the result, the history and the store it leaves
ExecuteTask(history, st, now, task_type, task_data, user_id, fault, createOk) ==
    LET base == [ NoDispatch EXCEPT !.op = "execute_task", !.isTaskResult = TRUE ]
        execution_id == ExecutionId(user_id, task_type, now)
        started == RecordTaskStart(history, task_type, user_id, now)
        r == SafeExecute(task_type, task_data, fault, createOk)
        st2 == IF r.created
               THEN [ st EXCEPT ![task_type] =
                        Append(@, CreatedRecord(@, r.data)) ]
               ELSE st
        ran == [ base EXCEPT !.calls = << "safe_execute" >>,
                             !.storeOps = IF r.steps[Len(r.steps)] = "execute"
                                             /\ r.error # "exception"
                                          THEN 1 ELSE 0 ]
    IN  IF CreateTask(task_type) = "None"
        THEN [ result |-> [ base EXCEPT !.error = "unknown_type" ],
               history |-> history, store |-> st ]
        ELSE IF fault = "ctor"
        THEN [ result |-> ExceptionToResult(base),
               history |-> history, store |-> st ]
        ELSE IF fault = "record_start"
        THEN [ result |-> ExceptionToResult(base),
               history |-> history, store |-> st ]
        ELSE IF fault = "record_result"
        THEN [ result |-> ExceptionToResult(ran),
               history |-> started, store |-> st2 ]
        ELSE [ result |-> [ ran EXCEPT !.success = r.success, !.error = r.error ],
               history |-> RecordTaskResult(started, execution_id, r.success),
               store |-> st2 ]

\* query filters a caller passes: "" is an absent key
Filters ==
    { [ status |-> "",        priority |-> "",     due |-> "" ],
      [ status |-> "pending", priority |-> "",     due |-> "" ],
      [ status |-> "done",    priority |-> "high", due |-> "" ],
      [ status |-> "",        priority |-> "",     due |-> "2026-11-05" ] }

NoFilters == [ status |-> "", priority |-> "", due |-> "" ]

\* the filter keys each handler's query translates; the others are ignored
FilterKeys(task_type) ==
    CASE task_type = "todo" -> { "status", "priority", "due" }
      [] task_type = "subscription" -> { "status" }
      [] OTHER -> {}

\* the store-side evaluation of the conjunction query builds
FilterMatch(task_type, filters, r) ==
    /\ ("status" \in FilterKeys(task_type) /\ filters.status # "")
          => r.status = filters.status
    /\ ("priority" \in FilterKeys(task_type) /\ filters.priority # "")
          => r.priority = filters.priority
    /\ ("due" \in FilterKeys(task_type) /\ filters.due # "")
          => r.due = filters.due

\* whether query built a filter_condition at all
HasFilterCondition(task_type, filters) ==
    \/ "status" \in FilterKeys(task_type) /\ filters.status # ""
    \/ "priority" \in FilterKeys(task_type) /\ filters.priority # ""
    \/ "due" \in FilterKeys(task_type) /\ filters.due # ""

\* query of the handlers: always a success, the store's failure shows as no records
Query(task_type, collection, filters, qOk) ==
    LET results == SelectSeq(QueryDatabase(collection, qOk),
                             LAMBDA r : FilterMatch(task_type, filters, r))
    IN  [ NoResult EXCEPT !.op = "query", !.success = TRUE,
            !.matched = results, !.total = Len(results) ]

\* store requests of one query: TodoTask.query asks again, unfiltered, when a
\* filtered query comes back empty
QueryStoreOps(task_type, collection, filters, qOk) ==
    IF task_type = "todo" /\ HasFilterCondition(task_type, filters)
       /\ Query(task_type, collection, filters, qOk).total = 0
    THEN 2 ELSE 1

\* query_data
QueryData(st, data_type, filters, fault, qOk) ==
    LET base == [ NoDispatch EXCEPT !.op = "query_data", !.isTaskResult = TRUE ]
    IN  IF CreateTask(data_type) = "None"
        THEN [ base EXCEPT !.error = "unknown_type" ]
        ELSE IF fault = "ctor" THEN ExceptionToResult(base)
        ELSE IF fault # "none"
        THEN ExceptionToResult([ base EXCEPT !.calls = << "query" >> ])
        ELSE [ base EXCEPT !.success = TRUE, !.calls = << "query" >>,
                 !.storeOps = QueryStoreOps(data_type, st[data_type], filters, qOk),
                 !.handler = Query(data_type, st[data_type], filters, qOk) ]

\* delete_all_data: the result and the store it leaves
DeleteAllData(st, data_type, fault, qOk, failing) ==
    LET base == [ NoDispatch EXCEPT !.op = "delete_all_data", !.isTaskResult = TRUE ]
        all_records == QueryDatabase(st[data_type], qOk)
        h == DeleteAll(all_records, failing)
    IN  IF CreateTask(data_type) = "None"
        THEN [ result |-> [ base EXCEPT !.error = "unknown_type" ], store |-> st ]
        ELSE IF fault = "ctor"
        THEN [ result |-> ExceptionToResult(base), store |-> st ]
        ELSE IF fault # "none"
        THEN [ result |-> ExceptionToResult([ base EXCEPT !.calls = << "delete_all" >> ]),
               store |-> st ]
        ELSE [ result |-> [ base EXCEPT !.success = h.success,
                              !.calls = << "delete_all" >>,
                              !.storeOps = 1 + Len(h.archiveCalls),
                              !.handler = h ],
               store |-> [ st EXCEPT ![data_type] =
                             ApplyArchive(@, ArchivedIds(all_records, failing)) ] ]

\* BaseTask.update_by_name, which AccountingTask and SubscriptionTask inherit
BaseUpdateByName ==
    [ NoResult EXCEPT !.op = "update_by_name", !.error = "not_implemented" ]

\* update_task_status: the result and the store it leaves
UpdateTaskStatus(st, data_type, task_name, new_status, new_priority, new_date, fault, qOk, reply, updOk) ==
    LET base == [ NoDispatch EXCEPT !.op = "update_task_status",
                                    !.isTaskResult = TRUE ]
        h == IF data_type = "todo"
             THEN UpdateByName(QueryDatabase(st.todo, qOk), task_name, new_status,
                               new_priority, new_date, reply, updOk)
             ELSE BaseUpdateByName
        ops == IF data_type = "todo" THEN 1 + Len(h.updateCalls) ELSE 0
    IN  IF CreateTask(data_type) = "None"
        THEN [ result |-> [ base EXCEPT !.error = "unknown_type" ], store |-> st ]
        ELSE IF fault = "ctor"
        THEN [ result |-> ExceptionToResult(base), store |-> st ]
        ELSE IF fault # "none"
        THEN [ result |-> ExceptionToResult([ base EXCEPT !.calls = << "update_by_name" >> ]),
               store |-> st ]
        ELSE [ result |-> [ base EXCEPT !.success = h.success, !.error = h.error,
                              !.calls = << "update_by_name" >>,
                              !.storeOps = ops, !.handler = h ],
               store |-> IF h.success
                         THEN [ st EXCEPT !.todo =
                                  ApplyUpdate(@, h.updateCalls[1][1], new_status,
                                              new_priority, new_date,
                                              h.updateCalls[1][2]) ]
                         ELSE st ]

\* a task description of a batch: a dict that may lack the "type" or "data" key
BatchTasks ==
    { [ hasType |-> TRUE, hasData |-> TRUE, type |-> "todo",
        data |-> [ isDict |-> TRUE, name |-> <<"d">>, num |-> "pos",
                   date |-> "ymd", option |-> "valid" ] ],
      [ hasType |-> TRUE, hasData |-> TRUE, type |-> "todo",
        data |-> [ isDict |-> TRUE, name |-> << >>, num |-> "pos",
                   date |-> "", option |-> "valid" ] ],
      [ hasType |-> TRUE, hasData |-> TRUE, type |-> "unknown",
        data |-> [ isDict |-> TRUE, name |-> <<"d">>, num |-> "pos",
                   date |-> "", option |-> "valid" ] ],
      [ hasType |-> TRUE, hasData |-> FALSE, type |-> "todo",
        data |-> [ isDict |-> FALSE, name |-> << >>, num |-> "nan",
                   date |-> "", option |-> "bogus" ] ] }

\* what happens to one slot of a batch: the injected fault, the store's answer
\* to the create and whether the clock ticks before the task starts
SlotPlans == [ fault : { "none", "ctor" }, createOk : BOOLEAN, tick : { 0, 1 } ]

\* the awaited coroutines of asyncio.gather, which run one after the other in
\* input order: the state after tasks i..k, results appended to acc
RECURSIVE GatherFrom(_, _, _, _, _, _, _, _)
GatherFrom(history, st, now, tasks, user_id, plan, i, acc) ==
    IF i > Len(tasks)
    THEN [ results |-> acc, history |-> history, store |-> st, clock |-> now ]
    ELSE LET t == now + plan[i].tick
             x == ExecuteTask(history, st, t, tasks[i].type, tasks[i].data,
                              user_id, plan[i].fault, plan[i].createOk)
         IN  GatherFrom(x.history, x.store, t, tasks, user_id, plan, i + 1,
                        Append(acc, [ slot |-> i,
                                      success |-> ~x.result.raised /\ x.result.success,
                                      error |-> IF x.result.raised THEN "task_failed"
                                                ELSE x.result.error ]))

\* batch_execute_tasks: building the coroutine list reads task["type"] and
\* task["data"]; a missing key raises there and the handler of the method
\* returns a list of one failed result
BatchExecuteTasks(history, st, now, tasks, user_id, plan) ==
    IF \E i \in DOMAIN tasks : ~tasks[i].hasType \/ ~tasks[i].hasData
    THEN [ results |-> << [ slot |-> 0, success |-> FALSE, error |-> "system" ] >>,
           history |-> history, store |-> st, clock |-> now ]
    ELSE GatherFrom(history, st, now, tasks, user_id, plan, 1, << >>)

(***************************************************************************)
(* The handlers called directly on a store                                 *)
(***************************************************************************)
EmptyStore == [ t \in TaskTypes |-> << >> ]

DispatcherIdle ==
    /\ task_history = << >>
    /\ clock = 0
    /\ dres = NoDispatch

\* process_message has not been called: what it returns and does is recorded
\* as the call, the analysis, the branch taken, the reply, the oracle calls
\* in order, the dispatcher calls and the store before the call
NoReply ==
    [ op |-> "none", user_id |-> "", message |-> "", hasScheduler |-> FALSE,
      analysis |-> [ task_type |-> "", confidence |-> 0 ], route |-> "",
      reply |-> "", raised |-> FALSE, oracle |-> << >>, dispatched |-> << >>,
      store0 |-> EmptyStore ]

\* a user -> context dict without entries
NoContexts == [ u \in {} |-> << >> ]

ProcessorIdle ==
    /\ conversation_contexts = NoContexts
    /\ pm = NoReply
    /\ in_flight = {}
    /\ arrivals = << >>

\* no run of _daily_morning_push is under way
NoFiring ==
    [ state |-> "idle", used |-> 0, resized |-> FALSE, yielded |-> {},
      current |-> << >>, attempted |-> << >>, stayed |-> {},
      failed |-> FALSE ]

\* no report asked for, on an empty store
NoReport ==
    [ state |-> "idle", greeting |-> "", financial |-> "", income |-> 0,
      expense |-> 0, count |-> 0, todos |-> "", text |-> << >> ]

ReportIdle ==
    /\ accounting_db = << >>
    /\ todo_db = << >>
    /\ report = NoReport

\* no query answered
NoQueryReply ==
    [ state |-> "idle", displayed |-> << >>, total_count |-> 0, unseen |-> 0,
      text |-> "", listed |-> << >>, shown |-> 0 ]

QueryIdle ==
    /\ query_results = << >>
    /\ query_reply = NoQueryReply

\* TaskScheduler.__init__ with the schedule module just imported
SchedulerIdle ==
    /\ daily_push_users = {}
    /\ firing = NoFiring
    /\ is_running = FALSE
    /\ jobs = {}
    /\ due = {}
    /\ threads = << >>

InitHandlers ==
    /\ ReportIdle
    /\ QueryIdle
    /\ \E t \in TaskTypes, c \in Collections :
          store = [ EmptyStore EXCEPT ![t] = c ]
    /\ phase = "idle"
    /\ res = NoResult
    /\ DispatcherIdle
    /\ ProcessorIdle
    /\ SchedulerIdle

\* the answers the oracle can give when `n` candidates are presented
RepliesFor(n) == IF n > 1 THEN TieBreakReplies
                 ELSE { [ kind |-> "raise", idx |-> -1, conf |-> 0 ] }

\* one call of TodoTask.update_by_name
TodoUpdateByName ==
    /\ phase = "idle"
    /\ \E task_name \in Names, new_status \in NewStatuses,
          new_priority \in NewPriorities, new_date \in NewDates,
          qOk \in BOOLEAN, updOk \in BOOLEAN :
        LET all_todos == QueryDatabase(store.todo, qOk)
        IN  \E reply \in RepliesFor(Len(MatchedTasks(all_todos, task_name))) :
              LET r == UpdateByName(all_todos, task_name, new_status,
                                    new_priority, new_date, reply, updOk)
              IN  /\ res' = r
                  /\ store' = IF r.success
                              THEN [ store EXCEPT !.todo =
                                       ApplyUpdate(@, r.updateCalls[1][1],
                                                   new_status, new_priority,
                                                   new_date, r.updateCalls[1][2]) ]
                              ELSE store
    /\ phase' = "done"
    /\ UNCHANGED << task_history, clock, dres >>
    /\ UNCHANGED << processorVars, pushVars, schedulerVars, reportVars, queryVars >>

\* one call of delete_all of the handler of some type
HandlerDeleteAll ==
    /\ phase = "idle"
    /\ \E t \in TaskTypes, qOk \in BOOLEAN :
        LET all_records == QueryDatabase(store[t], qOk)
        IN  \E failing \in SUBSET (DOMAIN all_records) :
              /\ res' = [ DeleteAll(all_records, failing) EXCEPT
                           !.args = [ failing |-> failing, data_type |-> t,
                                      qOk |-> qOk ] ]
              /\ store' = [ store EXCEPT ![t] =
                              ApplyArchive(@, ArchivedIds(all_records, failing)) ]
    /\ phase' = "done"
    /\ UNCHANGED << task_history, clock, dres >>
    /\ UNCHANGED << processorVars, pushVars, schedulerVars, reportVars, queryVars >>

NextHandlers == TodoUpdateByName \/ HandlerDeleteAll

SpecHandlers == InitHandlers /\ [][NextHandlers]_vars

(***************************************************************************)
(* Properties of update_by_name and delete_all                             *)
(***************************************************************************)
UpdateReturned == phase = "done" /\ res.op = "update_by_name"

\* the oracle's answer names a candidate with enough confidence
AcceptableReply(reply, n) ==
    /\ reply.kind = "json"
    /\ reply.idx >= 0 /\ reply.idx < n
    /\ reply.conf >= 7

\* the records of the to-do collection whose title matches the requested name
Candidates == MatchedTasks(store.todo, res.args.task_name)

\* C2: when two or more records match and the tie-break yields no in-range
\* index with confidence >= 0.7, update_by_name calls no store update, fails,
\* and its message lists exactly the matched candidates; it picks none itself
C2_NoAutoPick ==
    (UpdateReturned /\ Len(res.matched) >= 2
       /\ ~AcceptableReply(res.args.reply, Len(res.matched)))
    => /\ ~res.success
       /\ res.updateCalls = << >>
       /\ res.target = 0
       /\ res.error = "ambiguous"
       /\ res.listed = Candidates
       /\ \A i \in DOMAIN store.todo : store.todo[i].status = "pending"
                                        /\ store.todo[i].priority = "medium"
                                        /\ store.todo[i].due = ""

\* C2: an ambiguous request answered with too little confidence has returned
C2_Witness ==
    /\ UpdateReturned /\ Len(res.matched) = 2
    /\ res.args.reply.kind = "json" /\ res.args.reply.idx = 0
    /\ res.args.reply.conf = 6
    /\ res.error = "ambiguous" /\ Len(res.listed) = 2

\* C3 (as claimed): when two or more records match and the oracle answers
\* with an in-range index i and confidence >= 0.7, candidate i is the resolved
\* target and the result is no disambiguation error
C3_AcceptedChoice ==
    (UpdateReturned /\ Len(res.matched) >= 2
       /\ AcceptableReply(res.args.reply, Len(res.matched)))
    => /\ res.error # "ambiguous"
       /\ res.target = res.args.reply.idx + 1
       /\ res.oracleCalls = 1

\* C4: when exactly one record matches, it is the resolved target and the
\* oracle is not called
C4_SingleCandidateDirect ==
    (UpdateReturned /\ Len(res.matched) = 1)
    => /\ res.target = 1
       /\ res.error # "ambiguous"
       /\ res.oracleCalls = 0
       /\ Len(Candidates) = 1
       /\ res.success => /\ Len(res.updateCalls) = 1
                         /\ res.updateCalls[1][1] = res.matched[1].id
                         /\ res.task_name = res.matched[1].title

\* C4: a request with a single candidate has been carried out
C4_Witness ==
    /\ UpdateReturned /\ Len(res.matched) = 1 /\ Len(store.todo) = 2
    /\ res.success /\ res.target = 1

DeleteReturned == phase = "done" /\ res.op = "delete_all"

\* live records of the whole store
LiveRecords == Len(store.todo) + Len(store.accounting) + Len(store.subscription)

\* live records that carry an id
LiveWithId ==
    Cardinality({ i \in DOMAIN store.todo : store.todo[i].id # 0 })
    + Cardinality({ i \in DOMAIN store.accounting : store.accounting[i].id # 0 })
    + Cardinality({ i \in DOMAIN store.subscription : store.subscription[i].id # 0 })

\* C7 (as claimed): delete_all makes one archive call per record, and
\* deleted_count + failed_count is the number of records
C7_OneArchivePerRecord ==
    DeleteReturned
    => /\ Len(res.archiveCalls) = res.total
       /\ res.deleted_count + res.failed_count = res.total

\* C7 (amended): delete_all makes one archive call per record that has an id;
\* it succeeds, deleted_count is the number of records that left the store,
\* failed_count the number of failed calls, and their sum the number of calls;
\* an empty collection gives deleted_count 0, one failure gives failed_count 1
C7_CountsPerArchiveCall ==
    DeleteReturned
    => /\ res.success
       /\ res.deleted_count + res.failed_count = Len(res.archiveCalls)
       /\ \A i \in DOMAIN res.archiveCalls : res.archiveCalls[i] # 0
       /\ res.total > 0 => res.deleted_count = res.total - LiveRecords
       /\ res.total = 0 => res.deleted_count = 0 /\ res.archiveCalls = << >>
       /\ res.total > 0 => res.failed_count = LiveWithId
       /\ Len(res.archiveCalls) = res.deleted_count + 1
            => res.failed_count = 1
       /\ res.hasFailedCount = (res.failed_count # 0)

\* C7: a delete_all of two records, one archive call failing, has returned
C7_Witness ==
    /\ DeleteReturned /\ res.total = 2 /\ Len(res.archiveCalls) = 2
    /\ res.deleted_count = 1 /\ res.failed_count = 1 /\ res.success

(***************************************************************************)
(* The dispatcher called on a store                                        *)
(***************************************************************************)
\* stores the dispatcher is exercised on
DispatcherStores ==
    { EmptyStore,
      [ EmptyStore EXCEPT !.todo =
          << Record(1, <<"S", "r">>), Record(2, <<"S", "d">>) >> ],
      [ EmptyStore EXCEPT !.todo = << Record(0, <<"d">>) >>,
                          !.accounting = << Record(1, <<"d">>) >> ],
      [ EmptyStore EXCEPT !.todo =
          << Record(1, <<"S", "r">>),
             [ Record(2, <<"S", "d">>) EXCEPT !.status = "done" ] >> ] }

DispatchTypes == TaskTypes \cup { "unknown" }

PassFaults == { "none", "ctor", "handler" }

InitDispatcher ==
    /\ ReportIdle
    /\ QueryIdle
    /\ store \in DispatcherStores
    /\ phase = "idle"
    /\ res = NoResult
    /\ DispatcherIdle
    /\ ProcessorIdle
    /\ SchedulerIdle

\* the wall clock advances
Tick ==
    /\ phase = "idle"
    /\ clock < MaxClock
    /\ clock' = clock + 1
    /\ UNCHANGED << store, phase, res, task_history, dres >>
    /\ UNCHANGED << processorVars, pushVars, schedulerVars, reportVars, queryVars >>

\* one call of execute_task
DispatchExecuteTask ==
    /\ phase = "idle"
    /\ Cardinality(DOMAIN task_history) < MaxExec
    /\ \E user_id \in Users, task_type \in DispatchTypes, task_data \in SampleData,
          fault \in Faults, createOk \in BOOLEAN :
        LET x == ExecuteTask(task_history, store, clock, task_type, task_data,
                             user_id, fault, createOk)
        IN  /\ dres' = [ x.result EXCEPT !.args =
                          [ task_type |-> task_type, user_id |-> user_id,
                            fault |-> fault, task_data |-> task_data,
                            lifecycle |->
                              IF x.result.calls = << "safe_execute" >>
                              THEN SafeExecute(task_type, task_data, fault, createOk)
                              ELSE NoLifecycle ] ]
            /\ task_history' = x.history
            /\ store' = x.store
    /\ phase' = "done"
    /\ UNCHANGED << res, clock >>
    /\ UNCHANGED << processorVars, pushVars, schedulerVars, reportVars, queryVars >>

\* one call of query_data
DispatchQueryData ==
    /\ phase = "idle"
    /\ \E data_type \in DispatchTypes, filters \in Filters, fault \in PassFaults,
          qOk \in BOOLEAN :
        dres' = [ QueryData(store, data_type, filters, fault, qOk) EXCEPT
                    !.args = [ task_type |-> data_type, fault |-> fault ] ]
    /\ phase' = "done"
    /\ UNCHANGED << store, res, task_history, clock >>
    /\ UNCHANGED << processorVars, pushVars, schedulerVars, reportVars, queryVars >>

\* one call of delete_all_data
DispatchDeleteAllData ==
    /\ phase = "idle"
    /\ \E data_type \in DispatchTypes, fault \in PassFaults, qOk \in BOOLEAN,
          failing \in SUBSET (1..MaxRecords) :
        LET x == DeleteAllData(store, data_type, fault, qOk, failing)
        IN  /\ dres' = [ x.result EXCEPT !.args =
                          [ task_type |-> data_type, fault |-> fault ] ]
            /\ store' = x.store
    /\ phase' = "done"
    /\ UNCHANGED << res, task_history, clock >>
    /\ UNCHANGED << processorVars, pushVars, schedulerVars, reportVars, queryVars >>

\* one call of update_task_status
DispatchUpdateTaskStatus ==
    /\ phase = "idle"
    /\ \E data_type \in DispatchTypes, task_name \in Names,
          new_status \in NewStatuses, new_priority \in NewPriorities,
          new_date \in NewDates, fault \in PassFaults, qOk \in BOOLEAN,
          updOk \in BOOLEAN :
        \E reply \in RepliesFor(Len(MatchedTasks(store.todo, task_name))) :
          LET x == UpdateTaskStatus(store, data_type, task_name, new_status,
                                    new_priority, new_date, fault, qOk, reply, updOk)
          IN  /\ dres' = [ x.result EXCEPT !.args =
                            [ task_type |-> data_type, fault |-> fault ] ]
              /\ store' = x.store
    /\ phase' = "done"
    /\ UNCHANGED << res, task_history, clock >>
    /\ UNCHANGED << processorVars, pushVars, schedulerVars, reportVars, queryVars >>

\* one call of batch_execute_tasks
DispatchBatchExecuteTasks ==
    /\ phase = "idle"
    /\ \E k \in 0..MaxBatch, user_id \in Users :
        \E tasks \in [1..k -> BatchTasks], plan \in [1..k -> SlotPlans] :
          LET x == BatchExecuteTasks(task_history, store, clock, tasks, user_id, plan)
          IN  /\ dres' = [ NoDispatch EXCEPT !.op = "batch_execute_tasks",
                             !.results = x.results, !.k = k,
                             !.isTaskResult = TRUE,
                             !.args = [ tasks |-> tasks, user_id |-> user_id ] ]
              /\ task_history' = x.history
              /\ store' = x.store
              /\ clock' = x.clock
    /\ phase' = "done"
    /\ UNCHANGED << res >>
    /\ UNCHANGED << processorVars, pushVars, schedulerVars, reportVars, queryVars >>

NextDispatcher ==
    \/ Tick
    \/ DispatchExecuteTask
    \/ DispatchQueryData
    \/ DispatchDeleteAllData
    \/ DispatchUpdateTaskStatus
    \/ DispatchBatchExecuteTasks

SpecDispatcher == InitDispatcher /\ [][NextDispatcher]_vars

(***************************************************************************)
(* Properties of the dispatcher                                            *)
(***************************************************************************)
DispatchReturned ==
    phase = "done"
    /\ dres.op \in { "execute_task", "query_data", "delete_all_data",
                     "update_task_status" }

\* C5: execute_task, query_data, delete_all_data and update_task_status
\* return a TaskResult and never raise; a call in which an exception was
\* raised (handler construction, bookkeeping, a handler method) or whose
\* handler lifecycle failed returns success = false
C5_DispatcherNeverRaises ==
    DispatchReturned
    => /\ ~dres.raised
       /\ dres.isTaskResult
       /\ dres.args.fault # "none" => ~dres.success
       /\ dres.error # "" => ~dres.success
       /\ dres.success => dres.calls # << >>

\* C5: a call in which an exception was raised has returned a failed result
C5_Witness ==
    /\ DispatchReturned /\ dres.op = "execute_task"
    /\ dres.args.fault = "record_result" /\ dres.args.task_type = "todo"
    /\ dres.error = "system" /\ ~dres.success /\ dres.isTaskResult
    /\ dres.calls = << "safe_execute" >>

BatchReturned == phase = "done" /\ dres.op = "batch_execute_tasks"

\* C8 (as claimed): batch_execute_tasks on k task descriptions returns k
\* results for every input list, the i-th belonging to the i-th task (slot 0
\* marks the result the method's own except clause stands in for a task)
C8_BatchOneResultPerTask ==
    BatchReturned
    => /\ Len(dres.results) = dres.k
       /\ \A i \in DOMAIN dres.results : dres.results[i].slot \in { 0, i }

(***************************************************************************)
(* GeminiClient and MessageProcessor                                       *)
(***************************************************************************)
\* the confidence below which a classified message is handled as chat, in tenths
ChatThreshold == 6

\* a confidence that the reply does not carry / that is not a number
ConfMissing == -1
ConfNotNumber == -2

\* what the oracle returns to the classification prompt: an error, text
\* without a JSON object, or an object with task_type and confidence
ClassifyReplies ==
    { [ kind |-> "raise", task_type |-> "", confidence |-> ConfMissing ],
      [ kind |-> "text",  task_type |-> "", confidence |-> ConfMissing ] }
    \cup [ kind : { "json" },
           task_type : { "", "chat", "accounting", "subscription", "todo",
                         "query", "delete", "update", "reminder" },
           confidence : { ConfMissing, ConfNotNumber, 0, 5, 6, 9 } ]

\* a classification that makes a message without a readable class a to-do
AnalyzeTaskGuessing(cls) ==
    IF cls.kind = "json"
    THEN [ task_type |-> cls.task_type, confidence |-> cls.confidence ]
    ELSE [ task_type |-> "todo", confidence |-> 8 ]

\* analyze_task: the analysis dict ("" is an absent task_type)
AnalyzeTask(cls) ==
    CASE cls.kind = "raise" -> [ task_type |-> "chat", confidence |-> 5 ]
      [] cls.kind = "text"  -> [ task_type |-> "chat", confidence |-> 8 ]
      [] OTHER -> [ task_type |-> cls.task_type, confidence |-> cls.confidence ]

\* a routing that hands every classified task to its handler
RouteIgnoringConfidence(analysis) ==
    LET task_type == IF analysis.task_type = "" THEN "chat" ELSE analysis.task_type
    IN  CASE task_type = "chat" -> "chat"
          [] task_type \in { "accounting", "subscription", "todo" } -> "task"
          [] task_type \in { "query", "delete", "update" } -> task_type
          [] OTHER -> "chat"

\* the branch process_message takes: analysis.get defaults, then the if chain;
\* comparing a confidence that is no number raises TypeError
Route(analysis) ==
    LET task_type == IF analysis.task_type = "" THEN "chat" ELSE analysis.task_type
        confidence == IF analysis.confidence = ConfMissing THEN 0
                      ELSE analysis.confidence
    IN  IF task_type = "chat" THEN "chat"
        ELSE IF confidence = ConfNotNumber THEN "error"
        ELSE IF confidence < ChatThreshold THEN "chat"
        ELSE CASE task_type \in { "accounting", "subscription", "todo" } -> "task"
               [] task_type \in { "query", "delete", "update" } -> task_type
               [] OTHER -> "chat"

\* messages: the text and which of the daily-push words it contains
Messages ==
    { [ text |-> "m1", push |-> "none" ],
      [ text |-> "m2", push |-> "subscribe" ],
      [ text |-> "m3", push |-> "cancel" ],
      [ text |-> "m4", push |-> "manual" ],
      [ text |-> "m5", push |-> "topic" ] }

\* what the oracle returns to a prompt answered with prose: an error or text
\* that strips to "" or to something
TextReplies == { "raise", "", "text" }

\* what a sub-handler returns: the reply, the oracle calls in order ("raise"
\* or "ok"), the dispatcher calls, what the dispatcher left
Outcome(reply, oracle, dispatched, st, history) ==
    [ reply |-> reply, oracle |-> oracle, dispatched |-> dispatched,
      store |-> st, history |-> history ]

OracleOk(t) == IF t = "raise" THEN "raise" ELSE "ok"

\* _handle_chat, with GeminiClient.chat
HandleChat(message, hasScheduler, chatReply, st, history) ==
    IF hasScheduler /\ message.push \in { "subscribe", "cancel", "manual" }
    THEN Outcome(CASE message.push = "subscribe" -> "use /subscribe_daily"
                   [] message.push = "cancel" -> "use /unsubscribe_daily"
                   [] OTHER -> "use /daily_report",
                 << >>, << >>, st, history)
    ELSE Outcome(IF chatReply = "raise" THEN "sorry, cannot process" ELSE chatReply,
                 << OracleOk(chatReply) >>, << >>, st, history)

\* the objects parsed from the reply to an extract_* prompt
ExtractedData ==
    { [ isDict |-> TRUE, name |-> <<"d">>, num |-> "pos", date |-> "ymd",
        option |-> "valid" ],
      [ isDict |-> TRUE, name |-> << >>, num |-> "pos", date |-> "ymd",
        option |-> "valid" ],
      [ isDict |-> TRUE, name |-> <<"d">>, num |-> "nan", date |-> "bad",
        option |-> "bogus" ] }

\* the sentinel dict the extract_* methods return on failure
DefaultData ==
    [ isDict |-> TRUE, name |-> <<"x">>, num |-> "zero", date |-> "ymd",
      option |-> "valid" ]

\* what an extract_* prompt brings back: an oracle error or text without
\* JSON (failed), else the parsed object
ExtractReplies ==
    { [ failed |-> TRUE, data |-> DefaultData ] }
    \cup { [ failed |-> FALSE, data |-> d ] : d \in ExtractedData }

\* extract_accounting_data, extract_subscription_data, extract_todo_data
ExtractData(ext) == IF ext.failed THEN DefaultData ELSE ext.data

\* _handle_task, with generate_smart_reply
HandleTask(task_type, ext, smart, fault, createOk, user_id, now, st, history) ==
    LET x == ExecuteTask(history, st, now, task_type, ExtractData(ext), user_id,
                         fault, createOk)
        extraction == << IF ext.failed THEN "raise" ELSE "ok" >>
    IN  IF x.result.success
        THEN Outcome(IF smart = "raise" THEN "done for you" ELSE smart,
                     extraction \o << OracleOk(smart) >>, << x.result >>,
                     x.store, x.history)
        ELSE Outcome("sorry, task failed", extraction, << x.result >>,
                     x.store, x.history)

\* what the intent prompts bring back: "None" or the parsed object, in which
\* "" is an absent key
Intents ==
    [ type : { "", "todo", "accounting", "bogus" }, filters : Filters,
      target : { "", "all", "specific" }, task_name : { << >>, <<"s">> },
      new_status : NewStatuses ]

NoIntent ==
    [ type |-> "", filters |-> NoFilters, target |-> "", task_name |-> << >>,
      new_status |-> "" ]

QueryIntents == { i \in Intents : i.target = "" /\ i.task_name = << >>
                                  /\ i.new_status = "" }
DeleteIntents == { i \in Intents : i.filters = NoFilters /\ i.task_name = << >>
                                   /\ i.new_status = "" }
UpdateIntents == { i \in Intents : i.filters = NoFilters /\ i.target = "" }

\* a fallback that asks for every to-do
DefaultQueryUnfiltered == [ NoIntent EXCEPT !.type = "todo" ]

\* the query _handle_query falls back to when the intent analysis fails
DefaultQueryIntent ==
    [ NoIntent EXCEPT !.type = "todo", !.filters.status = "pending" ]

\* generate_query_response: nothing found is answered without the oracle,
\* an oracle error by the fallback formatter
GenerateQueryResponse(records, text) ==
    IF Len(records) = 0
    THEN [ reply |-> "nothing found", oracle |-> << >> ]
    ELSE [ reply |-> IF text = "raise" THEN "formatted list" ELSE text,
           oracle |-> << OracleOk(text) >> ]

\* _handle_query
HandleQuery(intent, failed, text, fault, qOk, st, history) ==
    LET query_intent == IF failed THEN DefaultQueryIntent ELSE intent
        asked == << IF failed THEN "raise" ELSE "ok" >>
        r == [ QueryData(st, query_intent.type, query_intent.filters, fault, qOk)
                 EXCEPT !.args = [ data_type |-> query_intent.type,
                                   filters |-> query_intent.filters ] ]
        g == GenerateQueryResponse(r.handler.matched, text)
    IN  IF r.success
        THEN Outcome(g.reply, asked \o g.oracle, << r >>, st, history)
        ELSE Outcome("query failed", asked, << r >>, st, history)

\* _handle_delete
HandleDelete(intent, failed, fault, qOk, failing, st, history) ==
    LET delete_type == IF intent.type = "" THEN "todo" ELSE intent.type
        target == IF intent.target = "" THEN "all" ELSE intent.target
        x == DeleteAllData(st, delete_type, fault, qOk, failing)
        called == [ x.result EXCEPT !.args = [ data_type |-> delete_type,
                                               target |-> target ] ]
    IN  IF failed
        THEN Outcome("cannot tell what to delete", << "raise" >>, << >>, st, history)
        ELSE Outcome(IF x.result.success THEN "cleared all" ELSE "delete failed",
                     << "ok" >>, << called >>, x.store, history)

\* _handle_update
HandleUpdate(intent, failed, fault, qOk, reply, updOk, st, history) ==
    LET update_type == IF intent.type = "" THEN "todo" ELSE intent.type
        x == UpdateTaskStatus(st, update_type, intent.task_name, intent.new_status,
                              "", "", fault, qOk, reply, updOk)
    IN  IF failed
        THEN Outcome("cannot tell what to update", << "raise" >>, << >>, st, history)
        ELSE IF intent.task_name = << >>
        THEN Outcome("name the task", << "ok" >>, << >>, st, history)
        ELSE Outcome(IF x.result.success THEN "updated" ELSE "update failed",
                     << "ok" >>, << x.result >>, x.store, history)

\* the number of messages a conversation context keeps
MaxContextMessages == 10

\* the last n elements of a sequence
LastOf(seq, n) ==
    IF Len(seq) <= n THEN seq ELSE SubSeq(seq, Len(seq) - n + 1, Len(seq))

\* _update_conversation_context: the entry is created on first use, the message
\* appended and the list cut to its last ten
UpdateConversationContext(contexts, user_id, message, analysis) ==
    LET before == IF user_id \in DOMAIN contexts THEN contexts[user_id].messages
                  ELSE << >>
        messages == LastOf(Append(before, [ message |-> message.text,
                                            task_type |-> analysis.task_type ]),
                           MaxContextMessages)
    IN  [ u \in DOMAIN contexts \cup { user_id } |->
            IF u = user_id
            THEN [ messages |-> messages, context |-> LastOf(messages, 3),
                   last_task_type |-> analysis.task_type ]
            ELSE contexts[u] ]

\* the outcomes of the branch process_message takes, one for every way the
\* oracle, the handlers and the store can answer
Branch(route, analysis, message, hasScheduler, user_id, now, st, history) ==
    CASE route = "chat" ->
           { HandleChat(message, hasScheduler, t, st, history) : t \in TextReplies }
      [] route = "task" ->
           { HandleTask(analysis.task_type, ext, smart, fault, createOk, user_id,
                        now, st, history) :
               ext \in ExtractReplies, smart \in TextReplies,
               fault \in { "none", "execute" }, createOk \in BOOLEAN }
      [] route = "query" ->
           { HandleQuery(i, FALSE, t, fault, qOk, st, history) :
               i \in QueryIntents, t \in TextReplies,
               fault \in { "none", "handler" }, qOk \in BOOLEAN }
           \cup { HandleQuery(NoIntent, TRUE, t, "none", qOk, st, history) :
                    t \in TextReplies, qOk \in BOOLEAN }
      [] route = "delete" ->
           { HandleDelete(i, FALSE, fault, TRUE, failing, st, history) :
               i \in DeleteIntents, fault \in { "none", "handler" },
               failing \in SUBSET (1..MaxRecords) }
           \cup { HandleDelete(NoIntent, TRUE, "none", TRUE, {}, st, history) }
      [] route = "update" ->
           { HandleUpdate(i[1], FALSE, fault, TRUE, i[2], updOk, st, history) :
               i \in { <<n, r>> \in UpdateIntents \X TieBreakReplies :
                         r \in RepliesFor(Len(MatchedTasks(st.todo, n.task_name))) },
               fault \in { "none", "handler" }, updOk \in BOOLEAN }
           \cup { HandleUpdate(NoIntent, TRUE, "none", TRUE,
                               [ kind |-> "raise", idx |-> -1, conf |-> 0 ], TRUE,
                               st, history) }
      [] OTHER ->
           \* the TypeError of the comparison, caught by process_message
           { Outcome("sorry, cannot process", << >>, << >>, st, history) }

(***************************************************************************)
(* The message processor called on a store                                 *)
(***************************************************************************)
\* a context that already holds ten messages of one user
FullContext ==
    LET messages == [ i \in 1..MaxContextMessages |->
                        [ message |-> "m1", task_type |-> "chat" ] ]
    IN  [ u \in { "u1" } |->
            [ messages |-> messages, context |-> LastOf(messages, 3),
              last_task_type |-> "chat" ] ]

InitProcessor ==
    /\ ReportIdle
    /\ QueryIdle
    /\ store \in DispatcherStores
    /\ phase = "idle"
    /\ res = NoResult
    /\ DispatcherIdle
    /\ conversation_contexts \in { NoContexts, FullContext }
    /\ pm = NoReply
    /\ in_flight = {}
    /\ arrivals = << >>
    /\ SchedulerIdle

\* one call of process_message
ProcessMessage ==
    /\ phase = "idle"
    /\ \E user_id \in Users, message \in Messages, hasScheduler \in BOOLEAN,
          cls \in ClassifyReplies :
        LET analysis == AnalyzeTask(cls)
            route == Route(analysis)
        IN  /\ conversation_contexts' =
                 UpdateConversationContext(conversation_contexts, user_id,
                                           message, analysis)
            /\ \E out \in Branch(route, analysis, message, hasScheduler, user_id,
                                 clock, store, task_history) :
                 /\ pm' = [ op |-> "process_message", user_id |-> user_id,
                            message |-> message.text, hasScheduler |-> hasScheduler,
                            analysis |-> analysis, route |-> route,
                            reply |-> out.reply, raised |-> FALSE,
                            oracle |-> << IF cls.kind = "raise" THEN "raise"
                                          ELSE "ok" >> \o out.oracle,
                            dispatched |-> out.dispatched, store0 |-> store ]
                 /\ store' = out.store
                 /\ task_history' = out.history
    /\ phase' = "done"
    /\ UNCHANGED << res, clock, dres, in_flight, arrivals, pushVars, schedulerVars,
                    reportVars, queryVars >>

\* clear_conversation_context
ClearConversationContext ==
    /\ phase = "idle"
    /\ \E user_id \in DOMAIN conversation_contexts :
         conversation_contexts' =
           [ u \in DOMAIN conversation_contexts \ { user_id } |->
               conversation_contexts[u] ]
    /\ UNCHANGED << coreVars, pm, in_flight, arrivals, pushVars, schedulerVars,
                    reportVars, queryVars >>

NextProcessor ==
    \/ ProcessMessage
    \/ ClearConversationContext

SpecProcessor == InitProcessor /\ [][NextProcessor]_vars

(***************************************************************************)
(* Properties of the message processor                                     *)
(***************************************************************************)
MessageReturned == phase = "done" /\ pm.op = "process_message"

\* the record-store requests of the dispatcher calls of one message
RECURSIVE StoreOpsOf(_)
StoreOpsOf(dispatched) ==
    IF dispatched = << >> THEN 0
    ELSE dispatched[1].storeOps + StoreOpsOf(Tail(dispatched))

\* C1: when every call to the completion oracle raises, process_message
\* does not raise and returns a non-empty reply; the fallback analysis is
\* chat with confidence 0.5, the message is handled as chat, no handler is
\* reached through the dispatcher and the record store is left untouched
C1_OracleDownStillReplies ==
    (MessageReturned /\ \A i \in DOMAIN pm.oracle : pm.oracle[i] = "raise")
    => /\ ~pm.raised
       /\ pm.reply # ""
       /\ pm.analysis = [ task_type |-> "chat", confidence |-> 5 ]
       /\ pm.route = "chat"
       /\ pm.dispatched = << >>
       /\ store = pm.store0
       /\ task_history = << >>

\* C1: a message answered with the apology after the classification and the
\* chat completion both raised
C1_Witness ==
    /\ MessageReturned
    /\ pm.oracle = << "raise", "raise" >>
    /\ pm.reply = "sorry, cannot process"
    /\ pm.route = "chat"

\* C6: a classification whose confidence is below 0.6, a missing one
\* included, is handled as chat whatever its task type: no extraction prompt,
\* no dispatcher call, no record-store request
C6_LowConfidenceIsChat ==
    (MessageReturned
       /\ ( pm.analysis.confidence = ConfMissing
            \/ (pm.analysis.confidence >= 0
                 /\ pm.analysis.confidence < ChatThreshold) ))
    => /\ pm.route = "chat"
       /\ Len(pm.oracle) <= 2
       /\ pm.dispatched = << >>
       /\ StoreOpsOf(pm.dispatched) = 0
       /\ store = pm.store0

\* C6: a message classified as a to-do with confidence 0.5 was answered by
\* the chat completion
C6_Witness ==
    /\ MessageReturned
    /\ pm.analysis = [ task_type |-> "todo", confidence |-> 5 ]
    /\ pm.route = "chat"
    /\ pm.oracle = << "ok", "ok" >>
    /\ pm.reply = "text"

(***************************************************************************)
(* TaskScheduler: the daily push over the subscription set                 *)
(***************************************************************************)
Platforms == { <<"s">>, <<"t">> }
PushUsers == { <<"1">>, <<":", "1">> }

\* the platforms add_bot has registered a bot for
Bots == { <<"s">> }

\* the delivery attempts one firing may make
MaxAttempts == 2

\* a key that leaves the platform out
UserKeyWithoutPlatform(platform, user_id) == user_id

\* f"{platform}:{user_id}"
UserKey(platform, user_id) == platform \o <<":">> \o user_id

UserKeys == { UserKey(p, u) : p \in Platforms, u \in PushUsers }

\* the position of the first ":" of a key, 0 when there is none
FirstColon(user_key) ==
    IF \E i \in DOMAIN user_key : user_key[i] = ":"
    THEN CHOOSE i \in DOMAIN user_key :
           user_key[i] = ":" /\ \A j \in 1..(i - 1) : user_key[j] # ":"
    ELSE 0

\* platform, user_id = user_key.split(":", 1)
SplitKey(user_key) ==
    LET c == FirstColon(user_key)
    IN  [ platform |-> SubSeq(user_key, 1, c - 1),
          user_id |-> SubSeq(user_key, c + 1, Len(user_key)) ]

\* is_user_subscribed
IsUserSubscribed(user_id, platform) == UserKey(platform, user_id) \in daily_push_users

FiringActive == firing.state \in { "iterating", "delivering" }

\* the keys _send_daily_report was called for in the firing
AttemptedKeys ==
    { UserKey(firing.attempted[i].platform, firing.attempted[i].user_id) :
        i \in DOMAIN firing.attempted }

InitPush ==
    /\ ReportIdle
    /\ QueryIdle
    /\ store = EmptyStore
    /\ phase = "idle"
    /\ res = NoResult
    /\ DispatcherIdle
    /\ ProcessorIdle
    /\ daily_push_users = {}
    /\ firing = NoFiring
    /\ is_running = FALSE /\ jobs = {} /\ due = {} /\ threads = << >>

\* add_daily_push_user, called from the message-handling thread; a set that
\* changes while it is iterated is marked
AddDailyPushUser(user_id, platform) ==
    /\ LET user_key == UserKey(platform, user_id)
       IN  /\ daily_push_users' = daily_push_users \cup { user_key }
           /\ firing' = IF FiringActive /\ user_key \notin daily_push_users
                        THEN [ firing EXCEPT !.resized = TRUE ]
                        ELSE firing
    /\ UNCHANGED << coreVars, processorVars, schedulerVars, reportVars, queryVars >>

\* remove_daily_push_user, called from the message-handling thread
RemoveDailyPushUser(user_id, platform) ==
    /\ LET user_key == UserKey(platform, user_id)
       IN  /\ daily_push_users' = daily_push_users \ { user_key }
           /\ firing' = IF FiringActive /\ user_key \in daily_push_users
                        THEN [ firing EXCEPT !.resized = TRUE,
                                             !.stayed = @ \ { user_key } ]
                        ELSE firing
    /\ UNCHANGED << coreVars, processorVars, schedulerVars, reportVars, queryVars >>

\* _daily_morning_push starts on the scheduler thread: the for statement
\* takes an iterator of the set, which remembers the size of the set
BeginPush ==
    /\ firing.state \in { "idle", "ended" }
    /\ firing' = [ NoFiring EXCEPT !.state = "iterating",
                                   !.used = Cardinality(daily_push_users),
                                   !.stayed = daily_push_users ]
    /\ UNCHANGED << coreVars, processorVars, daily_push_users, schedulerVars, reportVars, queryVars >>

\* the for statement asks the iterator for the next key.  A set whose size
\* differs from the remembered one raises RuntimeError, which the outer except
\* of _daily_morning_push logs: the firing is over.  A set that was changed
\* and has its old size again is read from a rebuilt table: any key, one
\* already visited included, or none.
NextUser ==
    /\ firing.state = "iterating"
    /\ IF Cardinality(daily_push_users) # firing.used
       THEN firing' = [ firing EXCEPT !.state = "ended", !.failed = TRUE ]
       ELSE LET keys == IF firing.resized THEN daily_push_users
                        ELSE daily_push_users \ firing.yielded
            IN  \/ /\ keys = {} \/ firing.resized
                   /\ firing' = [ firing EXCEPT !.state = "ended" ]
                \/ /\ Len(firing.attempted) < MaxAttempts
                   /\ \E user_key \in keys :
                        firing' = [ firing EXCEPT !.state = "delivering",
                                                  !.current = user_key,
                                                  !.yielded = @ \cup { user_key } ]
    /\ UNCHANGED << coreVars, processorVars, daily_push_users, schedulerVars, reportVars, queryVars >>

\* what one call of _send_daily_report comes to
DeliveryOutcomes == { "sent", "send_false", "send_raised", "no_bot" }

\* the loop body after _send_daily_report: the method logs its own failures
\* and the try of the loop body logs what is left, so the loop goes on
AfterDelivery(outcome) == "iterating"

\* the body of the for loop: the key is split and _send_daily_report makes
\* the delivery attempt for the pair
SendDailyReport ==
    /\ firing.state = "delivering"
    /\ \E outcome \in DeliveryOutcomes :
         LET pair == SplitKey(firing.current)
         IN  /\ (outcome = "no_bot") = (pair.platform \notin Bots)
             /\ firing' = [ firing EXCEPT !.state = AfterDelivery(outcome),
                                          !.attempted = Append(@, pair) ]
    /\ UNCHANGED << coreVars, processorVars, daily_push_users, schedulerVars, reportVars, queryVars >>

NextPush ==
    \/ \E user_id \in PushUsers, platform \in Platforms :
         AddDailyPushUser(user_id, platform)
    \/ \E user_id \in PushUsers, platform \in Platforms :
         RemoveDailyPushUser(user_id, platform)
    \/ BeginPush
    \/ NextUser
    \/ SendDailyReport

SpecPush == InitPush /\ [][NextPush]_vars

\* C9 (as claimed): a firing during which subscribers were added or removed
\* does not fail, and every subscriber that stayed in the set throughout the
\* firing got its delivery attempt
C9_SafeUnderConcurrentMutation ==
    firing.state = "ended"
    => /\ ~firing.failed
       /\ firing.stayed \subseteq AttemptedKeys

(***************************************************************************)
(* TaskScheduler: start, stop and the polling threads                      *)
(***************************************************************************)
\* the threads start() creates in one run of the process
MaxThreads == 3

InitScheduler ==
    /\ ReportIdle
    /\ QueryIdle
    /\ store = EmptyStore
    /\ phase = "idle"
    /\ res = NoResult
    /\ DispatcherIdle
    /\ ProcessorIdle
    /\ SchedulerIdle

ThreadsAt(pc) == { t \in DOMAIN threads : threads[t].pc = pc }

\* a start() that registers and launches whatever the running flag says
StartUnguarded ==
    /\ Len(threads) < MaxThreads
    /\ jobs' = jobs \cup { Len(threads) + 1 }
    /\ is_running' = TRUE
    /\ threads' = Append(threads, [ pc |-> "while", job |-> 0 ])
    /\ UNCHANGED << coreVars, processorVars, pushVars, reportVars, queryVars, due >>

\* start(): nothing when is_running; else setup_daily_tasks registers a new
\* daily job with the process-wide schedule, is_running is set and a new
\* thread begins _run_scheduler
Start ==
    /\ Len(threads) < MaxThreads
    /\ IF is_running
       THEN UNCHANGED << is_running, jobs, threads >>
       ELSE /\ jobs' = jobs \cup { Len(threads) + 1 }
            /\ is_running' = TRUE
            /\ threads' = Append(threads, [ pc |-> "while", job |-> 0 ])
    /\ UNCHANGED << coreVars, processorVars, pushVars, reportVars, queryVars, due >>

\* stop(): is_running is cleared and schedule.clear() drops every job; the
\* thread is neither joined nor told anything else
Stop ==
    /\ is_running' = FALSE
    /\ jobs' = {}
    /\ due' = {}
    /\ UNCHANGED << coreVars, processorVars, pushVars, reportVars, queryVars, threads >>

\* the wall clock passes 08:00: the registered jobs become due
EightOClock ==
    /\ jobs \ due # {}
    /\ due' = due \cup jobs
    /\ UNCHANGED << coreVars, processorVars, pushVars, reportVars, queryVars, is_running, jobs, threads >>

\* _run_scheduler: `while self.is_running`
WhileRunning(t) ==
    /\ threads[t].pc = "while"
    /\ threads' = [ threads EXCEPT ![t].pc = IF is_running THEN "run_pending"
                                              ELSE "exited" ]
    /\ UNCHANGED << coreVars, processorVars, pushVars, reportVars, queryVars, is_running, jobs, due >>

\* schedule.run_pending(): a registered job that is due is run, which calls
\* _run_async_task(_daily_morning_push) on this thread; the job stays due
\* until that call has returned
RunPending(t) ==
    /\ threads[t].pc = "run_pending"
    /\ IF jobs \cap due = {}
       THEN threads' = [ threads EXCEPT ![t].pc = "wait" ]
       ELSE \E j \in jobs \cap due :
              threads' = [ threads EXCEPT ![t] = [ pc |-> "firing", job |-> j ] ]
    /\ UNCHANGED << coreVars, processorVars, pushVars, reportVars, queryVars, is_running, jobs, due >>

\* _run_async_task returns: the job records its run and its next_run moves
\* to the next day
FiringReturns(t) ==
    /\ threads[t].pc = "firing"
    /\ due' = due \ { threads[t].job }
    /\ threads' = [ threads EXCEPT ![t] = [ pc |-> "wait", job |-> 0 ] ]
    /\ UNCHANGED << coreVars, processorVars, pushVars, reportVars, queryVars, is_running, jobs >>

\* threading.Event().wait(60) returns
WaitReturns(t) ==
    /\ threads[t].pc = "wait"
    /\ threads' = [ threads EXCEPT ![t].pc = "while" ]
    /\ UNCHANGED << coreVars, processorVars, pushVars, reportVars, queryVars, is_running, jobs, due >>

NextScheduler ==
    \/ Start
    \/ Stop
    \/ EightOClock
    \/ \E t \in DOMAIN threads : WhileRunning(t)
    \/ \E t \in DOMAIN threads : RunPending(t)
    \/ \E t \in DOMAIN threads : FiringReturns(t)
    \/ \E t \in DOMAIN threads : WaitReturns(t)

SpecScheduler == InitScheduler /\ [][NextScheduler]_vars

\* C10 (as claimed): whatever start() and stop() calls were made, at most one
\* firing of the daily trigger is executing
C10_NoOverlappingFirings == Cardinality(ThreadsAt("firing")) <= 1

(***************************************************************************)
(* The daily report (src/src/core/scheduler.py)                            *)
(***************************************************************************)
\* the records the report specification puts into a database
MaxLedger == 2

\* datetime.now() of the report as a day number; the day before is yesterday
Today == 2

NoDate == -1

RecordDates == 0..Today

Amounts == { 0, 30, 50 }

AccountingEntries == [ date : RecordDates, type : { "income", "expense" }, amount : Amounts ]

TodoEntries == [ status : { "pending", "done" }, due : { NoDate } \cup (1..(Today + 1)) ]

\* limit=filters.get('limit', 20)
QueryLimit == 20

Take(records, n) == SubSeq(records, 1, IF Len(records) < n THEN Len(records) ELSE n)

\* filters = {<the date property name>: yesterday_date}: the key is the
\* name of the store property, written date_zh here
YesterdayFilters(yesterday_date) == [ k \in { "date_zh" } |-> yesterday_date ]

\* the filter_condition AccountingTask.query builds: of the keys of filters
\* only type, date_from and date_to (and category) add a part
AccountingFilterMatch(filters, r) ==
    /\ "type" \in DOMAIN filters => r.type = filters["type"]
    /\ "date_from" \in DOMAIN filters => r.date >= filters["date_from"]
    /\ "date_to" \in DOMAIN filters => r.date <= filters["date_to"]

\* AccountingTask.query: query_database answers a failing store with no records
AccountingQuery(db, filters, qOk) ==
    LET results == Take(SelectSeq(QueryDatabase(db, qOk),
                                  LAMBDA r : AccountingFilterMatch(filters, r)),
                        IF "limit" \in DOMAIN filters THEN filters["limit"]
                        ELSE QueryLimit)
    IN  [ success |-> TRUE, records |-> results, count |-> Len(results) ]

RECURSIVE SumOf(_, _)
\* the amounts of the records of one type, added up
SumOf(records, type) ==
    IF records = << >> THEN 0
    ELSE (IF Head(records).type = type THEN Head(records).amount ELSE 0)
         + SumOf(Tail(records), type)

\* _get_yesterday_financial_summary
GetYesterdayFinancialSummary(db, yesterday_date, qOk) ==
    LET result == AccountingQuery(db, YesterdayFilters(yesterday_date), qOk)
        records == result.records
        income == SumOf(records, "income")
        expense == SumOf(records, "expense")
        none == [ phrase |-> "no_records_yesterday", income |-> 0, expense |-> 0, count |-> 0 ]
    IN  IF ~result.success
        THEN [ none EXCEPT !.phrase = "accounting_fetch_failed" ]
        ELSE IF records = << >> THEN none
        ELSE IF income > 0 \/ expense > 0
        THEN [ phrase |-> "figures", income |-> income, expense |-> expense,
               count |-> Len(records) ]
        ELSE none

\* _get_today_todos: open tasks without a due date or due today, and overdue ones
GetTodayTodos(db, today_date, qOk) ==
    LET all_todos == Take(QueryDatabase(db, qOk), QueryLimit)
        open == SelectSeq(all_todos, LAMBDA t : t.status \notin { "done", "cancelled" })
        today_todos == SelectSeq(open, LAMBDA t : t.due = NoDate \/ t.due = today_date)
        overdue_todos == SelectSeq(open, LAMBDA t : t.due # NoDate /\ t.due < today_date)
    IN  [ overdue |-> Len(overdue_todos), today |-> Len(today_todos),
          phrase |-> IF today_todos = << >> THEN "no_tasks_today"
                     ELSE "tasks_today" ]

FallbackGreeting == "fallback_greeting"

\* _generate_morning_greeting: the oracle's text stripped, the fixed greeting
\* when the call raises
GenerateMorningGreeting(oracle) ==
    IF oracle = "raise" THEN FallbackGreeting ELSE oracle

\* _generate_daily_report
GenerateDailyReport(adb, tdb, oracle, aOk, tOk) ==
    LET greeting == GenerateMorningGreeting(oracle)
        financial == GetYesterdayFinancialSummary(adb, Today - 1, aOk)
        todos == GetTodayTodos(tdb, Today, tOk)
    IN  [ state |-> "returned", greeting |-> greeting,
          financial |-> financial.phrase, income |-> financial.income,
          expense |-> financial.expense, count |-> financial.count,
          todos |-> todos.phrase,
          text |-> << "good_morning", greeting, "today_is", "yesterday_finances", financial.phrase,
                      "todos_today", todos.phrase, "closing_wish" >> ]

\* a database as the store returns it under the sort of the query, latest
\* date first
SortedByDate(db) == \A i \in 1..(Len(db) - 1) : db[i].date >= db[i + 1].date

Ledgers ==
    { db \in UNION { [ 1..n -> AccountingEntries ] : n \in 0..MaxLedger } :
        SortedByDate(db) }

TodoLists == UNION { [ 1..n -> TodoEntries ] : n \in 0..1 }

InitReport ==
    /\ store = EmptyStore
    /\ phase = "idle"
    /\ res = NoResult
    /\ DispatcherIdle
    /\ ProcessorIdle
    /\ SchedulerIdle
    /\ QueryIdle
    /\ accounting_db \in Ledgers
    /\ todo_db \in TodoLists
    /\ report = NoReport

\* send_manual_daily_report
SendManualDailyReport(platform, user_id) ==
    /\ report.state = "idle"
    /\ \E oracle \in TextReplies, aOk \in BOOLEAN, tOk \in BOOLEAN :
         report' = GenerateDailyReport(accounting_db, todo_db, oracle, aOk, tOk)
    /\ UNCHANGED << coreVars, processorVars, pushVars, schedulerVars,
                    accounting_db, todo_db, queryVars >>

NextReport ==
    \E platform \in Platforms, user_id \in PushUsers :
      SendManualDailyReport(platform, user_id)

SpecReport == InitReport /\ [][NextReport]_vars

\* the records of the accounting database dated the day before the report
YesterdayRecords == SelectSeq(accounting_db, LAMBDA r : r.date = Today - 1)

\* C15 (as claimed): send_manual_daily_report returns a report that is not
\* empty, and for a user with no to-do records and no accounting records for
\* the previous day the report has its greeting, the no-records phrase in the
\* financial section and the no-tasks phrase in the to-do section.
C15_EmptyDayReport ==
    report.state = "returned"
      => /\ \E i \in DOMAIN report.text : report.text[i] # ""
         /\ (todo_db = << >> /\ YesterdayRecords = << >>)
              => /\ report.text[1] = "good_morning"
                 /\ report.financial = "no_records_yesterday"
                 /\ report.todos = "no_tasks_today"

\* C20 (as claimed): the figures of the financial section are those of the
\* accounting records dated the previous day: income, expense and the number
\* of records count no record of another date.
C20_OnlyYesterdayCounts ==
    (report.state = "returned" /\ report.financial = "figures")
      => /\ report.income = SumOf(YesterdayRecords, "income")
         /\ report.expense = SumOf(YesterdayRecords, "expense")
         /\ report.count = Len(YesterdayRecords)

(***************************************************************************)
(* The reply to a query (src/src/ai/gemini_client.py, generate_query_response) *)
(***************************************************************************)
\* if total_count > 10 ... [:10]
DisplayLimit == 10

\* the records a query result may hold beyond the display limit
MaxExtra == 2

\* the to-do pages of a query result: the store gives a page without a due
\* date the value None for the property
QueryRecords ==
    [ status : { "in_progress", "pending", "cancelled" },
      priority : { "high", "medium" },
      due : { NoDate, 1, 2 } ]

\* a to-do page whose status select is empty: the store gives the property
\* the value None
StatuslessRecords ==
    [ status : { "none" }, priority : { "high" }, due : { NoDate } ]

\* status_order
StatusOrder(status) ==
    CASE status = "in_progress" -> 3
      [] status = "pending" -> 2
      [] status = "done" -> 1
      [] OTHER -> 0

\* priority_order
PriorityOrder(priority) ==
    CASE priority = "high" -> 3
      [] priority = "medium" -> 2
      [] priority = "low" -> 1
      [] OTHER -> 0

\* the two ranks of the sort key are equal
SameRanks(x, y) ==
    /\ StatusOrder(x.status) = StatusOrder(y.status)
    /\ PriorityOrder(x.priority) = PriorityOrder(y.priority)

\* the comparison of two sort keys: tuples compare by their first differing
\* element
KeyLess(x, y) ==
    \/ StatusOrder(x.status) < StatusOrder(y.status)
    \/ /\ StatusOrder(x.status) = StatusOrder(y.status)
       /\ PriorityOrder(x.priority) < PriorityOrder(y.priority)
    \/ /\ SameRanks(x, y)
       /\ x.due < y.due

\* sorted() raises TypeError when it has to order None against a date string,
\* which it has to whenever two records of equal ranks differ that way
SortRaises(records) ==
    \E i, j \in DOMAIN records :
      /\ SameRanks(records[i], records[j])
      /\ records[i].due = NoDate
      /\ records[j].due # NoDate

\* x put into a list sorted from the highest key down, behind the records
\* that do not come after it
InsertDescending(x, sorted) ==
    LET before == { k \in 0..Len(sorted) :
                      \A m \in 1..k : ~KeyLess(sorted[m], x) }
        at == CHOOSE k \in before : \A k2 \in before : k2 <= k
    IN  SubSeq(sorted, 1, at) \o << x >> \o SubSeq(sorted, at + 1, Len(sorted))

RECURSIVE SortedDescending(_, _)
\* sorted(query_results, key=..., reverse=True): records of equal keys keep
\* their order
SortedDescending(records, sorted) ==
    IF records = << >> THEN sorted
    ELSE SortedDescending(Tail(records), InsertDescending(Head(records), sorted))

\* displayed_results of generate_query_response for to-dos
DisplayedResults(records) ==
    IF Len(records) > DisplayLimit
    THEN Take(SortedDescending(records, << >>), DisplayLimit)
    ELSE records

\* status_order of the fallback formatter
FallbackStatusOrder == << "in_progress", "pending", "done", "cancelled" >>

\* the positions in results of the records of one status, in their order
StatusGroup(results, status) ==
    SelectSeq([ i \in DOMAIN results |-> i ], LAMBDA i : results[i].status = status)

\* _format_query_results_fallback for to-dos: the positions of the records it
\* writes an entry for, in the order of the text, the number it gives as
\* displayed and the number it gives as not shown
FormatQueryResultsFallback(results, total_count) ==
    [ listed |-> StatusGroup(results, FallbackStatusOrder[1])
                 \o StatusGroup(results, FallbackStatusOrder[2])
                 \o StatusGroup(results, FallbackStatusOrder[3])
                 \o StatusGroup(results, FallbackStatusOrder[4]),
      shown |-> Len(results),
      unseen |-> IF total_count > Len(results) THEN total_count - Len(results)
                 ELSE 0 ]

\* _handle_query from the successful query_data on: generate_query_response
\* builds the prompt from displayed_results, total_count and the number not
\* shown, and the fallback formats the same; the sort stands outside the try
\* of generate_query_response, so its TypeError reaches the except of
\* _handle_query
QueryReply(records, oracle) ==
    IF records = << >>
    THEN [ NoQueryReply EXCEPT !.state = "returned", !.text = "nothing_found" ]
    ELSE IF Len(records) > DisplayLimit /\ SortRaises(records)
    THEN [ NoQueryReply EXCEPT !.state = "returned", !.text = "query_problem" ]
    ELSE LET displayed == DisplayedResults(records)
             fallback == FormatQueryResultsFallback(displayed, Len(records))
         IN  [ state |-> "returned",
               displayed |-> displayed,
               total_count |-> Len(records),
               unseen |-> Len(records) - Len(displayed),
               text |-> IF oracle = "raise" THEN "fallback_format"
                        ELSE "oracle_text",
               listed |-> IF oracle = "raise" THEN fallback.listed ELSE << >>,
               shown |-> IF oracle = "raise" THEN fallback.shown ELSE 0 ]

\* n copies of a record
Copies(x, n) == [ i \in 1..n |-> x ]

\* query results around the display limit: one record, copies of a second
\* and a third record
QueryLists ==
    { << >> } \cup
    { << a >> \o Copies(f, n) \o << b >> :
        a \in QueryRecords \cup StatuslessRecords, f \in QueryRecords,
        b \in QueryRecords,
        n \in (DisplayLimit - 3)..(DisplayLimit + MaxExtra - 2) }

InitQuery ==
    /\ store = EmptyStore
    /\ phase = "idle"
    /\ res = NoResult
    /\ DispatcherIdle
    /\ ProcessorIdle
    /\ SchedulerIdle
    /\ ReportIdle
    /\ query_results \in QueryLists
    /\ query_reply = NoQueryReply

\* _handle_query answering a to-do query
HandleQueryReply ==
    /\ query_reply.state = "idle"
    /\ \E oracle \in { "raise", "text" } :
         query_reply' = QueryReply(query_results, oracle)
    /\ UNCHANGED << coreVars, processorVars, pushVars, schedulerVars, reportVars,
                    query_results >>

NextQuery == HandleQueryReply

SpecQuery == InitQuery /\ [][NextQuery]_vars

\* C16 (as claimed): a to-do query result of more than ten records is
\* displayed as exactly ten, from the highest status rank, priority rank and
\* due date down, with the total and the number not shown (total - 10); a
\* result of at most ten records is displayed whole.
C16_TenMostImportant ==
    (query_reply.state = "returned" /\ query_results # << >>)
      => /\ query_reply.total_count = Len(query_results)
         /\ IF Len(query_results) > DisplayLimit
            THEN /\ Len(query_reply.displayed) = DisplayLimit
                 /\ query_reply.unseen = Len(query_results) - DisplayLimit
                 /\ \A i \in 1..(DisplayLimit - 1) :
                      ~KeyLess(query_reply.displayed[i], query_reply.displayed[i + 1])
            ELSE query_reply.displayed = query_results

(***************************************************************************)
(* The execution history over several dispatches                           *)
(* (src/src/core/task_dispatcher.py)                                       *)
(***************************************************************************)
\* the ticks of the wall clock in 24 * 3600 seconds
DayTicks == 1

\* the days_to_keep cleanup_old_history is called with
KeepDays == 0..1

\* a cleanup that removes the entries of finished executions only
OldExecutionsCompletedOnly(history, cutoff_time) ==
    { execution_id \in DOMAIN history :
        /\ history[execution_id].status = "completed"
        /\ history[execution_id].start_time < cutoff_time }

\* old_executions of cleanup_old_history: start_time is the isoformat of the
\* UTC clock reading and is parsed back to the same timestamp
OldExecutions(history, cutoff_time) ==
    { execution_id \in DOMAIN history :
        history[execution_id].start_time < cutoff_time }

\* cleanup_old_history: the history it leaves
CleanupHistory(history, now, days_to_keep) ==
    LET cutoff_time == now - days_to_keep * DayTicks
        old_executions == OldExecutions(history, cutoff_time)
    IN  [ execution_id \in DOMAIN history \ old_executions |-> history[execution_id] ]

\* the calls the history is exercised with: a to-do that validates and one
\* that does not, a handler that raises, bookkeeping that raises
HistoryTypes == { "todo", "unknown" }

HistoryData ==
    { d \in SampleData : d.isDict /\ d.num = "pos" /\ d.date = "ymd" /\ d.option = "valid" }

HistoryFaults == { "none", "execute", "record_result" }

InitHistory ==
    /\ ReportIdle
    /\ QueryIdle
    /\ store = EmptyStore
    /\ phase = "idle"
    /\ res = NoResult
    /\ DispatcherIdle
    /\ ProcessorIdle
    /\ SchedulerIdle

\* one call of execute_task, of the calls a dispatcher gets over its life: two
\* calls may read the same value from the clock
ExecuteTaskCall(user_id, task_type, task_data, fault, createOk) ==
    /\ Cardinality(DOMAIN task_history) < MaxExec
    /\ LET x == ExecuteTask(task_history, store, clock, task_type, task_data,
                            user_id, fault, createOk)
       IN  /\ \A t \in TaskTypes : Len(x.store[t]) <= MaxRecords
           /\ dres' = [ x.result EXCEPT !.args =
                          [ task_type |-> task_type, user_id |-> user_id,
                            fault |-> fault ] ]
           /\ task_history' = x.history
           /\ store' = x.store
    /\ UNCHANGED << phase, res, clock >>
    /\ UNCHANGED << processorVars, pushVars, schedulerVars, reportVars, queryVars >>

\* one call of cleanup_old_history
CleanupOldHistory(days_to_keep) ==
    /\ task_history' = CleanupHistory(task_history, clock, days_to_keep)
    /\ dres' = [ NoDispatch EXCEPT !.op = "cleanup_old_history",
                                   !.args = [ days_to_keep |-> days_to_keep,
                                              before |-> task_history ] ]
    /\ UNCHANGED << store, phase, res, clock >>
    /\ UNCHANGED << processorVars, pushVars, schedulerVars, reportVars, queryVars >>

NextHistory ==
    \/ Tick
    \/ \E user_id \in Users, task_type \in HistoryTypes, task_data \in HistoryData,
          fault \in HistoryFaults, createOk \in BOOLEAN :
         ExecuteTaskCall(user_id, task_type, task_data, fault, createOk)
    \/ \E days_to_keep \in KeepDays : CleanupOldHistory(days_to_keep)

SpecHistory == InitHistory /\ [][NextHistory]_vars

\* C17: cleanup_old_history(days) leaves no entry that started more than
\* days * 24 hours before the call, and leaves every other entry in the
\* history as it was, running or completed.
C17_CleanupKeepsWindow ==
    [][ \A days_to_keep \in KeepDays :
          CleanupOldHistory(days_to_keep)
            => /\ \A id \in DOMAIN task_history' :
                    task_history'[id].start_time >= clock - days_to_keep * DayTicks
               /\ \A id \in DOMAIN task_history :
                    task_history[id].start_time >= clock - days_to_keep * DayTicks
                      => /\ id \in DOMAIN task_history'
                         /\ task_history'[id] = task_history[id]
               /\ DOMAIN task_history' \subseteq DOMAIN task_history ]_vars

\* a cleanup has removed an old entry that was still running and kept a
\* younger one
C17_Witness ==
    /\ dres.op = "cleanup_old_history"
    /\ \E id \in DOMAIN dres.args.before :
         /\ id \notin DOMAIN task_history
         /\ dres.args.before[id].status = "running"
    /\ task_history # << >>

\* C19 (as claimed): every execute_task dispatch of a registered type makes an
\* entry of its own in the history, which ends completed with the success
\* flag of the result, next to the entries of the dispatches before it.
C19_OneEntryPerDispatch ==
    [][ \A user_id \in Users, task_type \in HistoryTypes \cap Registry,
           task_data \in HistoryData, fault \in HistoryFaults \ { "record_result" },
           createOk \in BOOLEAN :
          ExecuteTaskCall(user_id, task_type, task_data, fault, createOk)
            => LET id == ExecutionId(user_id, task_type, clock)
               IN  /\ Cardinality(DOMAIN task_history')
                        = Cardinality(DOMAIN task_history) + 1
                   /\ task_history'[id].status = "completed"
                   /\ task_history'[id].success
                        = (IF dres'.success THEN "True" ELSE "False")
                   /\ \A other \in DOMAIN task_history :
                        task_history'[other] = task_history[other] ]_vars

\* C11 (as claimed): a timer loop that start() launched before the latest
\* start() was stopped in between, so its next test of the running flag
\* finds the flag cleared and the loop terminates
C11_StoppedLoopExits ==
    [][ \A t \in DOMAIN threads :
          (t < Len(threads) /\ threads[t].pc = "while"
             /\ threads'[t].pc # "while")
          => threads'[t].pc = "exited" ]_vars

C13_AtMostOneAttempt ==
    \A i, j \in DOMAIN firing.attempted :
      i # j => firing.attempted[i] # firing.attempted[j]

\* C14: add_daily_push_user makes is_user_subscribed true for its pair and
\* remove_daily_push_user makes it false, each leaving the answer for every
\* other pair as it was, and no other step changes the subscriptions: the
\* answer for a pair is that of the last add or remove for it.  An add of a
\* subscribed pair and a remove of a pair that is not subscribed change nothing.
C14_LastCallWins ==
    [][ /\ \A platform \in Platforms, user_id \in PushUsers :
             /\ AddDailyPushUser(user_id, platform)
                  => /\ IsUserSubscribed(user_id, platform)'
                     /\ IsUserSubscribed(user_id, platform)
                          => daily_push_users' = daily_push_users
                     /\ \A p \in Platforms, u \in PushUsers :
                          << p, u >> # << platform, user_id >>
                            => IsUserSubscribed(u, p)' = IsUserSubscribed(u, p)
             /\ RemoveDailyPushUser(user_id, platform)
                  => /\ ~IsUserSubscribed(user_id, platform)'
                     /\ ~IsUserSubscribed(user_id, platform)
                          => daily_push_users' = daily_push_users
                     /\ \A p \in Platforms, u \in PushUsers :
                          << p, u >> # << platform, user_id >>
                            => IsUserSubscribed(u, p)' = IsUserSubscribed(u, p)
        /\ (BeginPush \/ NextUser \/ SendDailyReport)
             => daily_push_users' = daily_push_users ]_vars

\* two pairs whose platform and user differ only in where the colon falls are
\* subscribed, a third pair sharing the user of one is not, and a firing has
\* delivered to a subscriber
C14_Witness ==
    /\ IsUserSubscribed(<<"1">>, <<"s">>)
    /\ IsUserSubscribed(<<":", "1">>, <<"t">>)
    /\ ~IsUserSubscribed(<<"1">>, <<"t">>)
    /\ Len(firing.attempted) = 1

\* C18: a dispatcher call for a type that is not registered returns a failed
\* result with the unknown-type error whatever else would have failed,
\* invokes no handler method, makes no request to the store and leaves the
\* store and the execution history as they were.
C18_UnknownTypeIsTerminal ==
    [][ ( /\ phase = "idle" /\ phase' = "done"
          /\ dres'.op \in { "execute_task", "query_data", "delete_all_data",
                             "update_task_status" }
          /\ dres'.args.task_type \notin Registry )
        => /\ ~dres'.success /\ ~dres'.raised /\ dres'.isTaskResult
           /\ dres'.error = "unknown_type"
           /\ dres'.calls = << >>
           /\ dres'.storeOps = 0
           /\ task_history' = task_history
           /\ store' = store ]_vars

\* execute_task of an unregistered type returned on a store that holds
\* records, with a fault pending in the handler chain
C18_Witness ==
    /\ DispatchReturned /\ dres.op = "execute_task"
    /\ dres.args.task_type \notin Registry
    /\ dres.args.fault = "execute"
    /\ dres.error = "unknown_type"
    /\ store.todo # << >>

\* C21: update_by_name makes at most one store update, for the resolved
\* record, with fields whose new value was given non-empty only; a resolved
\* record without an id gets no update, a call in which no field is writable
\* fails without an update, and no record but the resolved one and no field
\* but the written ones changes in the store.
C21_WritesOnlyGivenFields ==
    [][ (phase = "idle" /\ phase' = "done" /\ res'.op = "update_by_name")
        => /\ Len(res'.updateCalls) <= 1
           /\ res'.updateCalls # << >>
                => /\ res'.target # 0
                   /\ res'.updateCalls[1][1] = res'.matched[res'.target].id
                   /\ res'.updateCalls[1][1] # 0
                   /\ res'.updateCalls[1][2] # {}
                   /\ "status" \in res'.updateCalls[1][2]
                        => res'.args.new_status # ""
                   /\ "priority" \in res'.updateCalls[1][2]
                        => res'.args.new_priority # ""
                   /\ "due" \in res'.updateCalls[1][2]
                        => res'.args.new_date.text # ""
           /\ (res'.target # 0 /\ res'.matched[res'.target].id = 0)
                => (res'.updateCalls = << >> /\ ~res'.success)
           /\ (res'.args.new_status = "" /\ res'.args.new_priority = ""
                 /\ ~(res'.args.new_date.len10 /\ res'.args.new_date.ymd))
                => (res'.updateCalls = << >> /\ ~res'.success)
           /\ res'.updateCalls = << >> => store' = store
           /\ store'.accounting = store.accounting
           /\ store'.subscription = store.subscription
           /\ Len(store'.todo) = Len(store.todo)
           /\ \A i \in DOMAIN store.todo :
                IF res'.updateCalls # << >>
                   /\ store.todo[i].id = res'.updateCalls[1][1]
                THEN /\ store'.todo[i].title = store.todo[i].title
                     /\ "status" \notin res'.updateCalls[1][2]
                          => store'.todo[i].status = store.todo[i].status
                     /\ "priority" \notin res'.updateCalls[1][2]
                          => store'.todo[i].priority = store.todo[i].priority
                     /\ "due" \notin res'.updateCalls[1][2]
                          => store'.todo[i].due = store.todo[i].due
                ELSE store'.todo[i] = store.todo[i] ]_vars

\* an update that wrote the status alone to one of two records, the date that
\* came with it being no valid date
C21_Witness ==
    /\ UpdateReturned /\ res.success /\ Len(store.todo) = 2
    /\ res.updateCalls[1][2] = { "status" }
    /\ res.args.new_priority = "" /\ res.args.new_date.text # ""
    /\ \E i \in DOMAIN store.todo : store.todo[i].status # "pending"
    /\ \E i \in DOMAIN store.todo : store.todo[i].status = "pending"

(***************************************************************************)
(* Conversation contexts under overlapping process_message calls           *)
(***************************************************************************)
\* the process_message and clear calls made in one run
MaxEvents == 4

\* the classifications the runs of this section draw from
ContextClasses ==
    { cls \in ClassifyReplies :
        \/ cls.kind = "raise"
        \/ cls.kind = "json" /\ cls.task_type = "todo" /\ cls.confidence = 9 }

\* messages are told apart by a number: those sent before the run have the
\* numbers -9..0, those of the run 1, 2, ...
PriorMessage(i) == i - MaxContextMessages

\* the calls that filled the context of u1 before the run
PriorArrivals ==
    [ i \in 1..MaxContextMessages |->
        [ kind |-> "message", user_id |-> "u1", message |-> PriorMessage(i) ] ]

\* the context these calls left
PriorContext ==
    LET messages == [ i \in 1..MaxContextMessages |->
                        [ message |-> PriorMessage(i), task_type |-> "chat" ] ]
    IN  [ u \in { "u1" } |->
            [ messages |-> messages, context |-> LastOf(messages, 3),
              last_task_type |-> "chat" ] ]

\* the calls of the run among the calls made so far
EventsOfRun(log) ==
    Cardinality({ i \in DOMAIN log : log[i].kind = "clear" \/ log[i].message > 0 })

\* the number of the next message
NextMessage(log) ==
    1 + Cardinality({ i \in DOMAIN log : log[i].kind = "message" /\ log[i].message > 0 })

\* the messages a user sent since the user's last clear, in the order of the
\* process_message calls
RECURSIVE SentSinceClear(_, _)
SentSinceClear(log, user_id) ==
    IF log = << >> THEN << >>
    ELSE LET last == log[Len(log)]
             front == SubSeq(log, 1, Len(log) - 1)
         IN  IF last.user_id # user_id THEN SentSinceClear(front, user_id)
             ELSE IF last.kind = "clear" THEN << >>
             ELSE Append(SentSinceClear(front, user_id), last.message)

\* the messages of a user's context, oldest first
History(contexts, user_id) ==
    IF user_id \in DOMAIN contexts
    THEN [ i \in DOMAIN contexts[user_id].messages |->
             contexts[user_id].messages[i].message ]
    ELSE << >>

InitContext ==
    /\ ReportIdle
    /\ QueryIdle
    /\ store = EmptyStore
    /\ phase = "idle"
    /\ res = NoResult
    /\ DispatcherIdle
    /\ pm = NoReply
    /\ in_flight = {}
    /\ \/ conversation_contexts = NoContexts /\ arrivals = << >>
       \/ conversation_contexts = PriorContext /\ arrivals = PriorArrivals
    /\ SchedulerIdle

\* process_message up to its first suspension: the call reads the context and
\* awaits analyze_task, which hands the oracle call to a worker thread
BeginProcessMessage(user_id) ==
    /\ EventsOfRun(arrivals) < MaxEvents
    /\ LET call == [ kind |-> "message", user_id |-> user_id,
                     message |-> NextMessage(arrivals) ]
       IN  /\ in_flight' = in_flight \cup { call }
           /\ arrivals' = Append(arrivals, call)
    /\ UNCHANGED << coreVars, conversation_contexts, pm, pushVars, schedulerVars,
                    reportVars, queryVars >>

\* process_message resumed by the analysis of its message: the context of the
\* user is updated before the call goes on to the handler of the class, which
\* does not touch the contexts
AnalysisReturns(call, cls) ==
    /\ call \in in_flight
    /\ conversation_contexts' =
         UpdateConversationContext(conversation_contexts, call.user_id,
                                   [ text |-> call.message ], AnalyzeTask(cls))
    /\ in_flight' = in_flight \ { call }
    /\ UNCHANGED << coreVars, pm, arrivals, pushVars, schedulerVars, reportVars,
                    queryVars >>

\* clear_conversation_context, which has no suspension
ClearCall(user_id) ==
    /\ EventsOfRun(arrivals) < MaxEvents
    /\ conversation_contexts' =
         [ u \in DOMAIN conversation_contexts \ { user_id } |->
             conversation_contexts[u] ]
    /\ arrivals' = Append(arrivals, [ kind |-> "clear", user_id |-> user_id,
                                      message |-> 0 ])
    /\ UNCHANGED << coreVars, pm, in_flight, pushVars, schedulerVars, reportVars,
                    queryVars >>

NextContext ==
    \/ \E user_id \in Users : BeginProcessMessage(user_id)
    \/ \E call \in in_flight, cls \in ContextClasses : AnalysisReturns(call, cls)
    \/ \E user_id \in Users : ClearCall(user_id)

SpecContext == InitContext /\ [][NextContext]_vars

\* C22: once every process_message call made so far has updated the context,
\* each user's history has at most ten entries and is the last min(10, n) of
\* the n messages the user sent since the user's last clear, in the order in
\* which the calls were made; a user without such a message has no history.
C22_HistoryIsLastSent ==
    in_flight = {}
    => \A user_id \in Users :
         /\ Len(History(conversation_contexts, user_id)) <= MaxContextMessages
         /\ History(conversation_contexts, user_id)
              = LastOf(SentSinceClear(arrivals, user_id), MaxContextMessages)

\* C23: safe_execute runs validate_data, format_data and execute in this
\* order; execute is reached only when validate_data returned true and gets
\* the output of format_data; when validate_data returns false or a step
\* raises, the result has success = false and the store is left as it was,
\* and the store changes only by the one record a successful execute created.
C23_ValidateFormatExecute ==
    [][ ( /\ phase = "idle" /\ phase' = "done"
          /\ dres'.op = "execute_task"
          /\ dres'.calls = << "safe_execute" >> )
        => LET a == dres'.args
               r == a.lifecycle
               valid == ValidateData(a.task_type, a.task_data)
           IN  /\ r.steps \in { << "validate" >>, << "validate", "format" >>,
                                << "validate", "format", "execute" >> }
               /\ r.steps[Len(r.steps)] = "execute"
                    => /\ valid = "true"
                       /\ a.fault \notin { "validate", "format" }
                       /\ r.data = FormatData(a.task_type, a.task_data)
               /\ (valid # "true" \/ a.fault \in { "validate", "format", "execute" })
                    => /\ ~r.success
                       /\ ~r.created
                       /\ dres'.success = FALSE
                       /\ store' = store
               /\ store' # store
                    => /\ r.success /\ r.created
                       /\ store' = [ store EXCEPT ![a.task_type] =
                                       Append(@, CreatedRecord(@, r.data)) ]
      ]_vars

\* C23: a call whose data passed validate_data, was changed by format_data
\* and was written by execute
C23_Witness ==
    /\ DispatchReturned
    /\ dres.op = "execute_task"
    /\ dres.success
    /\ dres.args.lifecycle.steps = << "validate", "format", "execute" >>
    /\ dres.args.lifecycle.data # dres.args.task_data
    /\ dres.args.lifecycle.data = FormatData(dres.args.task_type, dres.args.task_data)
    /\ Len(store[dres.args.task_type]) > 0

\* C24: when the oracle call that words the query results fails, the
\* fallback text has one entry for every record of the displayed results and
\* no record twice, the to-dos in the order in progress, pending, done,
\* cancelled of their status; the number given as displayed is the number of
\* records listed, and the number given as not shown is the total less the
\* displayed ones.
C24_FallbackListsEveryRecord ==
    (query_reply.state = "returned" /\ query_reply.text = "fallback_format")
    => /\ \A i \in DOMAIN query_reply.displayed :
            Cardinality({ k \in DOMAIN query_reply.listed :
                            query_reply.listed[k] = i }) = 1
       /\ \A k \in 1..(Len(query_reply.listed) - 1) :
            \E m, n \in DOMAIN FallbackStatusOrder :
              /\ m <= n
              /\ query_reply.displayed[query_reply.listed[k]].status
                   = FallbackStatusOrder[m]
              /\ query_reply.displayed[query_reply.listed[k + 1]].status
                   = FallbackStatusOrder[n]
       /\ query_reply.shown = Len(query_reply.listed)
       /\ query_reply.unseen = query_reply.total_count - query_reply.shown

\* the query-intent analysis of a message failed: the second oracle call of
\* a message routed to _handle_query
QueryIntentFailed ==
    /\ MessageReturned
    /\ pm.route = "query"
    /\ Len(pm.oracle) >= 2
    /\ pm.oracle[2] = "raise"

\* C25 (as claimed): when the query-intent analysis fails the request is
\* answered from one query of the to-do handler made with no status, priority
\* or date filter.
C25_DefaultIsUnfiltered ==
    QueryIntentFailed
    => /\ Len(pm.dispatched) = 1
       /\ pm.dispatched[1].op = "query_data"
       /\ pm.dispatched[1].args.data_type = "todo"
       /\ pm.dispatched[1].args.filters = NoFilters

\* C25 (amended): when the query-intent analysis fails the request is not
\* dropped: exactly one query_data call is made, for the to-dos, with the
\* status filter "pending" and no priority or date filter, and the records
\* it hands back are the pending to-dos of the store.
C25_DefaultIsPendingTodos ==
    QueryIntentFailed
    => /\ Len(pm.dispatched) = 1
       /\ pm.dispatched[1].op = "query_data"
       /\ pm.dispatched[1].args.data_type = "todo"
       /\ pm.dispatched[1].args.filters
            = [ status |-> "pending", priority |-> "", due |-> "" ]
       /\ pm.dispatched[1].success
            => \A i \in DOMAIN pm.dispatched[1].handler.matched :
                 pm.dispatched[1].handler.matched[i].status = "pending"
       /\ store = pm.store0

\* C25: a message whose query-intent analysis failed, answered from the
\* pending to-dos of a store that also holds a finished one
C25_Witness ==
    /\ QueryIntentFailed
    /\ pm.dispatched[1].success
    /\ Len(pm.dispatched[1].handler.matched) = 1
    /\ Len(pm.store0.todo) = 2
    /\ \E i \in DOMAIN pm.store0.todo : pm.store0.todo[i].status = "done"

\* C26: in the delete path delete_all_data is called only when the
\* delete-intent analysis succeeded with the target "all" (an absent target
\* counts as "all"); after a failed analysis or an intent with another target
\* no call is made and no record is archived.
C26_ArchiveOnlyOnAll ==
    (MessageReturned /\ pm.route = "delete")
    => /\ \A i \in DOMAIN pm.dispatched :
            pm.dispatched[i].op = "delete_all_data"
            => /\ pm.oracle[2] = "ok"
               /\ pm.dispatched[i].args.target = "all"
       /\ (\A i \in DOMAIN pm.dispatched : pm.dispatched[i].op # "delete_all_data")
            => store = pm.store0

(***************************************************************************)
(* The outgoing webhook of the Synology Chat adapter                       *)
(* (src/src/bots/synology_chat_bot.py)                                     *)
(***************************************************************************)
\* the webhook requests of one run
MaxWebhooks == 3

\* the platform name the adapter subscribes its users under
SynologyChat == << "s" >>

\* the texts of the requests: the two subscription commands, another
\* command, a plain message and a blank one
WebhookTexts == { "/subscribe_daily", "/unsubscribe_daily", "/help", "hello", " " }

\* text.strip() is empty
IsBlank(text) == text = " "

\* _auto_subscribe_daily_push: a user who is not subscribed is subscribed
AutoSubscribeDailyPush(subscribed, user_id) ==
    subscribed \cup { UserKey(SynologyChat, user_id) }

\* the subscriptions _handle_command leaves
HandleCommand(subscribed, command, user_id) ==
    CASE command = "/subscribe_daily" ->
           subscribed \cup { UserKey(SynologyChat, user_id) }
      [] command = "/unsubscribe_daily" ->
           subscribed \ { UserKey(SynologyChat, user_id) }
      [] OTHER -> subscribed

InitSynology ==
    /\ ReportIdle
    /\ QueryIdle
    /\ store = EmptyStore
    /\ phase = "idle"
    /\ res = NoResult
    /\ DispatcherIdle
    /\ ProcessorIdle
    /\ SchedulerIdle

\* _handle_outgoing_webhook for a request with the right token, on a bot
\* that has its scheduler: a text that is not blank first subscribes its
\* sender, then a text starting with "/" goes to _handle_command and any
\* other to process_message, which leaves the subscriptions alone
HandleOutgoingWebhook(user_id, text) ==
    /\ Len(arrivals) < MaxWebhooks
    /\ LET auto == IF IsBlank(text) THEN daily_push_users
                   ELSE AutoSubscribeDailyPush(daily_push_users, user_id)
       IN  daily_push_users' = IF IsBlank(text) THEN auto
                               ELSE HandleCommand(auto, text, user_id)
    /\ arrivals' = Append(arrivals, [ kind |-> "webhook", user_id |-> user_id,
                                      message |-> text ])
    /\ UNCHANGED << coreVars, conversation_contexts, pm, in_flight, firing,
                    schedulerVars, reportVars, queryVars >>

NextSynology ==
    \E user_id \in PushUsers, text \in WebhookTexts :
      HandleOutgoingWebhook(user_id, text)

SpecSynology == InitSynology /\ [][NextSynology]_vars

\* the last subscription command of the user was /unsubscribe_daily
RECURSIVE OptedOut(_, _)
OptedOut(log, user_id) ==
    IF log = << >> THEN FALSE
    ELSE LET last == log[Len(log)]
         IN  IF last.user_id = user_id /\ last.message = "/unsubscribe_daily"
             THEN TRUE
             ELSE IF last.user_id = user_id /\ last.message = "/subscribe_daily"
             THEN FALSE
             ELSE OptedOut(SubSeq(log, 1, Len(log) - 1), user_id)

\* C27: a user who has sent /unsubscribe_daily and no /subscribe_daily since
\* is not subscribed on the Synology Chat platform, whatever messages and
\* commands the user sent after it.
C27_StaysUnsubscribed ==
    \A user_id \in PushUsers :
      OptedOut(arrivals, user_id) => ~IsUserSubscribed(user_id, SynologyChat)

\* the title is not empty and, lowercased, contains the lowercased name or
\* is contained in it
TitledMatch(task_name, title) ==
    /\ title # << >>
    /\ \/ StrIn(Lower(task_name), Lower(title))
       \/ StrIn(Lower(title), Lower(task_name))

\* C28: the candidates of update_by_name are records whose title is not
\* empty and contains the name or is contained in it, case ignored; a record
\* without a title is never a candidate, and a name that matches no titled
\* record is answered by a failure that says nothing was found.
C28_OnlyTitledCandidates ==
    UpdateReturned
    => /\ \A i \in DOMAIN res.matched :
            TitledMatch(res.task_name, res.matched[i].title)
       /\ (\A i \in DOMAIN store.todo :
              ~TitledMatch(res.task_name, store.todo[i].title))
            => /\ ~res.success
               /\ res.error \in { "not_found", "empty_list" }

\* C29: when update_by_name succeeds, the fields its updates list and its
\* message name are the fields of the store write: a due date that was not
\* written is not reported as updated.
C29_ReportsWhatWasWritten ==
    (UpdateReturned /\ res.success)
    => { res.updates[i] : i \in DOMAIN res.updates } = res.updateCalls[1][2]

\* C30: delete_all reports success = true only when it archived at least one
\* record or the store returned an empty collection; when the store returned
\* records and every archive failed, or when the store failed to return the
\* collection, the result is success = false.
C30_SuccessNeedsAnArchive ==
    DeleteReturned
    => /\ res.success
            => \/ res.deleted_count >= 1
               \/ res.args.qOk /\ res.total = 0
       /\ (res.total >= 1 /\ res.deleted_count = 0) => ~res.success
       /\ ~res.args.qOk => ~res.success
====
